---- MODULE Spec2Model ----
(***************************************************************************)
(* Model of the browser dashboard of xmodpt/r3sin_pr1nt                    *)
(* (src/static/js/main.js, with the relay controller plugin script that is *)
(* appended to it, and the page template src/unnamed/part_003).            *)
(*                                                                         *)
(* The page is single threaded: every handler runs to its next await       *)
(* without interleaving.  An async function is therefore modelled as one   *)
(* action for the synchronous prefix that sends the fetch, and one action  *)
(* for the continuation that runs when the response (or the rejection)     *)
(* arrives.  `await fetch` and the following `await response.json()` are   *)
(* one arrival: no handler of main.js changes state between the two.       *)
(* The backend is the environment: it answers every request with any of    *)
(* the outcomes in Outcomes.                                               *)
(*                                                                         *)
(* Console output (addConsoleMessage) of the command handlers is kept out  *)
(* of the request models: no handler reads the console buffer.  The buffer *)
(* itself is modelled on its own (SpecConsole).                            *)
(***************************************************************************)
EXTENDS Naturals, Integers, Sequences, FiniteSets, TLC

VARIABLES
    \* ---- alerts (showAlert) and the handler step that produced the state
    alertArea,        \* children of #alertArea, oldest first
    event,            \* history: the handler step just taken
    \* ---- relay controller plugin
    relayToggling,    \* let relayToggling
    relayBtn,         \* relay id -> class token of its toolbar button
    relayBackend,     \* relay id -> state held by the backend
    relayReqs,        \* relay requests in flight, oldest first
    obs,              \* history: two observed invocations of toggleRelay
    \* ---- status poller
    statusReqs,       \* status polls in flight, oldest first
    statusDom,        \* the status card: text and class of its fields
    buttons,          \* id -> disabled flag of the control buttons
    printingOverlay,  \* the printing overlay: active class and its fields
    printStartTime,   \* let printStartTime (Null or "set")
    selectedFile,     \* let selectedFile
    lastPoll,         \* history: the status response that arrived last
    \* ---- settings modal
    configData,       \* let configData: section -> key -> value, pending edits
    configModalActive,\* #configModal has class active
    currentConfigTab, \* let currentConfigTab
    configContent,    \* what #configContent holds
    configTabs,       \* the plugin tab buttons appended to #configTabs
    cfgReqs,          \* tab loads and resets in flight, oldest first
    saves,            \* saveConfig calls awaiting Promise.all, oldest first:
                      \* how many requests of each are still in flight
    lastEdit,         \* history: the field edit made by the step just taken
    lastSent,         \* history: the config-write POSTs sent by the step just taken
    lastTabs,         \* history: the tabs of the config_tabs answer handled by the step just taken
    sentData,         \* history, kept by SpecSave alone: the POSTs each save in flight has
                      \* sent, in the order of saves
    \* ---- printer commands and file actions
    cmdReqs,          \* command and file requests in flight, oldest first
    fileList,         \* what #fileList holds
    \* ---- the page timer and the other two pollers it drives
    updateInterval,   \* let updateInterval: the period of the running timer, 0 when none runs
    usbReqs,          \* number of /api/usb_status requests in flight
    usbDom,           \* text of #usbService, #usbMount, #usbSpace
    itemReqs,         \* number of status_bar_items requests in flight
    pluginStatusItems,      \* children of #pluginStatusItems, in order
    additionalStatusItems,  \* children of #additionalStatusItems, in order
    lastItems,        \* history: the items of the response handled by the step just taken
    \* ---- the console
    consoleLines,     \* let consoleLines: the console buffer, oldest first
    consoleLog        \* history: every message passed to addConsoleMessage, oldest first

relayVars == <<relayToggling, relayBtn, relayBackend, relayReqs>>
statusVars == <<statusReqs, statusDom, buttons, printingOverlay, printStartTime,
                selectedFile, lastPoll>>
cfgVars == <<configData, configModalActive, currentConfigTab, configContent,
             configTabs, cfgReqs, saves>>
cfgHistory == <<lastEdit, lastSent, lastTabs, sentData>>
cmdVars == <<cmdReqs, fileList>>
pollVars == <<updateInterval, usbReqs, usbDom, itemReqs, pluginStatusItems,
              additionalStatusItems, lastItems>>
consoleVars == <<consoleLines, consoleLog>>
vars == <<alertArea, event, relayVars, obs, statusVars, cfgVars, cfgHistory, cmdVars,
          pollVars, consoleVars>>

\* what the handlers of one part of the page leave alone
outsideRelay == <<statusVars, cfgVars, cfgHistory, cmdVars, pollVars, consoleVars>>
outsideStatus == <<relayVars, obs, cfgVars, cfgHistory, cmdVars, pollVars,
                   consoleVars>>
outsideSave == <<relayVars, obs, statusVars, cmdVars, pollVars, consoleVars>>
outsideCfg == <<outsideSave, sentData>>
outsideCmd == <<relayVars, obs, statusReqs, statusDom, buttons, printingOverlay,
               printStartTime, lastPoll, cfgVars, cfgHistory, pollVars, consoleVars>>

----------------------------------------------------------------------------
(* Bounds of the model *)
MaxAlerts    == 1     \* toasts on screen at once (within one 4 s window)
MaxRelayReqs == 2     \* relay requests in flight at once
MaxPolls     == 2     \* status polls in flight at once
MaxCfgReqs   == 1     \* tab loads and resets in flight at once, with edits and saves
MaxTabLoads  == 2     \* tab loads in flight at once
MaxSaves     == 1     \* saveConfig calls in flight at once
MaxCmdReqs   == 2     \* command and file requests in flight at once
MaxSidePolls == 1     \* USB polls, and status item polls, in flight at once
MaxToasts    == 3     \* toasts on screen at once in the behaviours of showAlert alone

(* Values *)
Undefined == "undefined"
Null      == "null"
RelayIds  == {"relay_1", "relay_2"}

\* how a request can end: the fetch rejects, the HTTP status is not OK,
\* the body is not JSON, the body says success:false, the body says success
Outcomes == {"neterr", "httperr", "badjson", "appfail", "ok"}

EmptyMap == [x \in {} |-> x]

RemoveAt(s, i) == [j \in 1..(Len(s) - 1) |-> IF j < i THEN s[j] ELSE s[j + 1]]

Toast(message, type) == [message |-> message, type |-> type]

\* the step record: which handler ran, which phase of it, how its request
\* ended, how many toasts it showed and whether a rejection escaped it
Ev(op, phase, outcome, shown, escaped) ==
    [op |-> op, phase |-> phase, outcome |-> outcome,
     shown |-> shown, escaped |-> escaped]

\* a || b of JavaScript for a possibly undefined / null string
OrElse(a, b) == IF a = Undefined THEN b ELSE a
OrElseNull(a, b) == IF a = Null THEN b ELSE a

----------------------------------------------------------------------------
(* showAlert: append a toast; its own 4000 ms timer removes it *)
showAlert(area, message, type) == Append(area, Toast(message, type))

\* variant: a timer removes its toast only when no other toast is shown
AlertTimeoutWhenAlone ==
    /\ Len(alertArea) = 1
    /\ alertArea' = Tail(alertArea)
    /\ event' = Ev("alertTimer", "fired", "none", 0, FALSE)

\* every toast is removed by its own timer with the same delay, so the
\* oldest toast is the next to go
AlertTimeout ==
    /\ Len(alertArea) > 0
    /\ alertArea' = Tail(alertArea)
    /\ event' = Ev("alertTimer", "fired", "none", 0, FALSE)

\* the toasts shown by the step that produced the current state
StepToasts == SubSeq(alertArea, Len(alertArea) - event.shown + 1, Len(alertArea))

\* room for n more toasts inside the current 4 s window
AlertRoom(n) == Len(alertArea) + n <= MaxAlerts

\* the observation of two invocations of toggleRelay for one relay
ObsIdle ==
    [stage |-> "idle", relay |-> "relay_1", before |-> "none", after |-> "none",
     inflight |-> FALSE, sent |-> 0]

ObsVoid == [ObsIdle EXCEPT !.stage = "void"]

\* no successful config_tabs answer was handled by the step just taken
NoTabs == <<"none">>

\* no field edit was made by the step just taken
NoEdit == [section |-> "", key |-> "", value |-> ""]

\* the page as the template renders it
StatusDomInit ==
    [connectionStatus |-> [text |-> "Checking...", className |-> "status-value"],
     printStatus      |-> [text |-> "IDLE", className |-> "status-value"],
     progressStatus   |-> "0.0%",
     progressBar      |-> "",
     zPosition        |-> "0.00 mm"]

ButtonsInit ==
    [connectBtn |-> FALSE, disconnectBtn |-> FALSE, startBtn |-> TRUE,
     pauseBtn |-> TRUE, resumeBtn |-> TRUE, stopBtn |-> TRUE]

PrintingOverlayInit ==
    [active |-> FALSE, printingFileName |-> "Print Job",
     printingLayerInfo |-> "Layer 0 of 100", printingProgress |-> "100%",
     printingZPos |-> "0.28", printingTimeLeft |-> "16m", printingBytes |-> "0%"]

FileListInit == [note |-> "Loading files...", files |-> <<>>]

UsbDomInit == [usbService |-> "Checking...", usbMount |-> "Checking...",
               usbSpace |-> "Unknown"]

\* setInterval(..., 3000)
PollPeriod == 3000

----------------------------------------------------------------------------
\* the console lines of the page-load handler; the text of a line stands for
\* '[' + time of day + '] ' + message
ConsoleLine(message, type) == [text |-> message, type |-> type]
ConsoleInit ==
    << ConsoleLine("System initialized with plugin support", "info"),
       ConsoleLine("Waiting for printer connection...", "") >>

Init ==
    /\ alertArea = <<>>
    /\ event = Ev("load", "done", "none", 0, FALSE)
    /\ relayToggling = FALSE
    /\ relayBackend \in [RelayIds -> BOOLEAN]
    /\ relayBtn \in [RelayIds -> {"relay-on", "relay-off", "none"}]
    /\ \A r \in RelayIds : relayBtn[r] \in {"none", IF relayBackend[r] THEN "relay-on" ELSE "relay-off"}
    /\ relayReqs = <<>>
    /\ obs = ObsIdle
    /\ statusReqs = <<>>
    /\ statusDom = StatusDomInit
    /\ buttons = ButtonsInit
    /\ printingOverlay = PrintingOverlayInit
    /\ printStartTime = Null
    /\ selectedFile = Null
    /\ lastPoll = [status |-> Null, superseded |-> FALSE]
    /\ configData = EmptyMap
    /\ configModalActive = FALSE
    /\ currentConfigTab = "general"
    /\ configContent = ""
    /\ configTabs = <<>>
    /\ cfgReqs = <<>>
    /\ saves = <<>>
    /\ lastEdit = NoEdit
    /\ lastSent = {}
    /\ lastTabs = NoTabs
    /\ sentData = <<>>
    /\ cmdReqs = <<>>
    /\ fileList = FileListInit
    /\ updateInterval = PollPeriod
    /\ usbReqs = 0
    /\ usbDom = UsbDomInit
    /\ itemReqs = 0
    /\ pluginStatusItems = <<>>
    /\ additionalStatusItems = <<>>
    /\ lastItems = <<>>
    /\ consoleLines = ConsoleInit
    /\ consoleLog = ConsoleInit

\* one relay configuration, for the behaviours in which no relay handler runs
RelayAtRest ==
    /\ relayBackend = [r \in RelayIds |-> FALSE]
    /\ relayBtn = [r \in RelayIds |-> "relay-off"]

InitAtRest == Init /\ RelayAtRest

----------------------------------------------------------------------------
(* Relay controller plugin *)

\* class token written by updateRelayButtonState: relay-${state ? 'on' : 'off'}
RelayClass(state) == IF state THEN "relay-on" ELSE "relay-off"

\* variant: the class token is chosen the wrong way round
updateRelayButtonStateSwapped(btn, relayId, state) ==
    IF relayId \in DOMAIN btn /\ btn[relayId] # "none"
    THEN [btn EXCEPT ![relayId] = RelayClass(~state)]
    ELSE btn

\* updateRelayButtonState: only a toolbar button that exists is restyled; the
\* icon colour, background and border colour are set from the same value
updateRelayButtonState(btn, relayId, state) ==
    IF relayId \in DOMAIN btn /\ btn[relayId] # "none"
    THEN [btn EXCEPT ![relayId] = RelayClass(state)]
    ELSE btn

RelayReq(op, relayId, want) ==
    [op |-> op, relay |-> relayId, want |-> want, served |-> FALSE,
     state |-> FALSE, states |-> EmptyMap]

\* variant: the button is re-rendered when the request is sent
toggleRelayOptimistic(relayId) ==
    IF relayToggling
    THEN /\ event' = Ev("toggleRelay", "ignored", "none", 0, FALSE)
         /\ UNCHANGED <<alertArea, relayVars>>
    ELSE /\ Len(relayReqs) < MaxRelayReqs
         /\ relayToggling' = TRUE
         /\ relayReqs' = Append(relayReqs, RelayReq("toggle", relayId, FALSE))
         /\ relayBtn' = updateRelayButtonState(relayBtn, relayId, relayBtn[relayId] # "relay-on")
         /\ event' = Ev("toggleRelay", "sent", "none", 0, FALSE)
         /\ UNCHANGED <<alertArea, relayBackend>>

\* variant: no relayToggling guard
toggleRelayUnguarded(relayId) ==
    /\ Len(relayReqs) < MaxRelayReqs
    /\ relayToggling' = TRUE
    /\ relayReqs' = Append(relayReqs, RelayReq("toggle", relayId, FALSE))
    /\ event' = Ev("toggleRelay", "sent", "none", 0, FALSE)
    /\ UNCHANGED <<alertArea, relayBtn, relayBackend>>

\* toggleRelay, up to the fetch: a call made while a toggle is in flight
\* returns at once
toggleRelay(relayId) ==
    IF relayToggling
    THEN /\ event' = Ev("toggleRelay", "ignored", "none", 0, FALSE)
         /\ UNCHANGED <<alertArea, relayVars>>
    ELSE /\ Len(relayReqs) < MaxRelayReqs
         /\ relayToggling' = TRUE
         /\ relayReqs' = Append(relayReqs, RelayReq("toggle", relayId, FALSE))
         /\ event' = Ev("toggleRelay", "sent", "none", 0, FALSE)
         /\ UNCHANGED <<alertArea, relayBtn, relayBackend>>

\* setRelayState, up to the fetch
setRelayState(relayId, state) ==
    /\ Len(relayReqs) < MaxRelayReqs
    /\ relayReqs' = Append(relayReqs, RelayReq("set", relayId, state))
    /\ event' = Ev("setRelayState", "sent", "none", 0, FALSE)
    /\ UNCHANGED <<alertArea, relayToggling, relayBtn, relayBackend>>

\* refreshRelayStates, up to the fetch (10 s interval timer and the 1 s
\* timer after DOMContentLoaded)
refreshRelayStates ==
    /\ Len(relayReqs) < MaxRelayReqs
    /\ relayReqs' = Append(relayReqs, RelayReq("status", "relay_1", FALSE))
    /\ event' = Ev("refreshRelayStates", "sent", "none", 0, FALSE)
    /\ UNCHANGED <<alertArea, relayToggling, relayBtn, relayBackend>>

\* The backend handles request i: toggle flips the relay and reports the new
\* state, set stores the wanted state and reports it, get_status reports
\* every relay.
RelayBackendAfter(req) ==
    IF req.op = "toggle" THEN [relayBackend EXCEPT ![req.relay] = ~@]
    ELSE IF req.op = "set" THEN [relayBackend EXCEPT ![req.relay] = req.want]
    ELSE relayBackend

ServeRelay(i) ==
    /\ i \in 1..Len(relayReqs)
    /\ ~relayReqs[i].served
    /\ LET req == relayReqs[i]
           be  == RelayBackendAfter(req)
       IN  /\ relayBackend' = be
           /\ relayReqs' = [relayReqs EXCEPT ![i] =
                  [@ EXCEPT !.served = TRUE,
                            !.state = IF req.op # "status" THEN be[req.relay] ELSE FALSE,
                            !.states = IF req.op = "status" THEN be ELSE EmptyMap]]
    /\ event' = Ev("backend", "served", "none", 0, FALSE)
    /\ UNCHANGED <<alertArea, relayToggling, relayBtn>>

\* How request i can end for the page.  A request the backend has handled
\* ends with its success response, or with a transport failure when the
\* response is lost; one it has not handled ends with a transport failure,
\* a non-OK HTTP status, a body that is not JSON, or success:false.
RelayArrival(i, op, outcome) ==
    /\ i \in 1..Len(relayReqs)
    /\ relayReqs[i].op = op
    /\ IF relayReqs[i].served THEN outcome \in {"ok", "neterr"}
                             ELSE outcome \in Outcomes \ {"ok"}

\* for (const [relayId, relayInfo] of Object.entries(data))
\*     updateRelayButtonState(relayId, relayInfo.state)
RECURSIVE ApplyRelayStates(_, _, _)
ApplyRelayStates(btn, states, todo) ==
    IF todo = {} THEN btn
    ELSE LET r == CHOOSE x \in todo : TRUE
         IN  ApplyRelayStates(updateRelayButtonState(btn, r, states[r]), states, todo \ {r})

\* toasts of the continuation of toggleRelay
ToggleRelayToasts(outcome, message) ==
    IF outcome = "ok" THEN <<Toast(message, "success")>>
    ELSE IF outcome = "appfail"
         THEN <<Toast(OrElse(message, "Failed to toggle relay"), "error")>>
         ELSE <<Toast("Network error - please try again", "error")>>

\* variant: the guard is released at the end of the try block only
toggleRelayDoneNoFinally(i, outcome, message) ==
    /\ RelayArrival(i, "toggle", outcome)
    /\ AlertRoom(1)
    /\ relayBtn' = IF outcome = "ok"
                   THEN updateRelayButtonState(relayBtn, relayReqs[i].relay, relayReqs[i].state)
                   ELSE relayBtn
    /\ alertArea' = alertArea \o ToggleRelayToasts(outcome, message)
    /\ event' = Ev("toggleRelay", "done", outcome, 1, FALSE)
    /\ relayToggling' = IF outcome \in {"ok", "appfail"} THEN FALSE ELSE relayToggling
    /\ relayReqs' = RemoveAt(relayReqs, i)
    /\ UNCHANGED relayBackend

\* toggleRelay after the await: try / catch / finally
toggleRelayDone(i, outcome, message) ==
    /\ RelayArrival(i, "toggle", outcome)
    /\ AlertRoom(1)
    /\ relayBtn' = IF outcome = "ok"
                   THEN updateRelayButtonState(relayBtn, relayReqs[i].relay, relayReqs[i].state)
                   ELSE relayBtn
    /\ alertArea' = alertArea \o ToggleRelayToasts(outcome, message)
    /\ event' = Ev("toggleRelay", "done", outcome, 1, FALSE)
    /\ relayToggling' = FALSE
    /\ relayReqs' = RemoveAt(relayReqs, i)
    /\ UNCHANGED relayBackend

\* setRelayState after the await
setRelayStateDone(i, outcome) ==
    /\ RelayArrival(i, "set", outcome)
    /\ relayBtn' = IF outcome = "ok"
                   THEN updateRelayButtonState(relayBtn, relayReqs[i].relay, relayReqs[i].state)
                   ELSE relayBtn
    /\ event' = Ev("setRelayState", "done", outcome, 0, FALSE)
    /\ relayReqs' = RemoveAt(relayReqs, i)
    /\ UNCHANGED <<alertArea, relayToggling, relayBackend>>

\* variant: the answer of get_status is not rendered
refreshRelayStatesDoneNoRender(i, outcome) ==
    /\ RelayArrival(i, "status", outcome)
    /\ event' = Ev("refreshRelayStates", "done", outcome, 0, FALSE)
    /\ relayReqs' = RemoveAt(relayReqs, i)
    /\ UNCHANGED <<alertArea, relayToggling, relayBackend, relayBtn>>

\* refreshRelayStates after the await
refreshRelayStatesDone(i, outcome) ==
    /\ RelayArrival(i, "status", outcome)
    /\ relayBtn' = IF outcome = "ok"
                   THEN ApplyRelayStates(relayBtn, relayReqs[i].states, DOMAIN relayReqs[i].states)
                   ELSE relayBtn
    /\ event' = Ev("refreshRelayStates", "done", outcome, 0, FALSE)
    /\ relayReqs' = RemoveAt(relayReqs, i)
    /\ UNCHANGED <<alertArea, relayToggling, relayBackend>>

----------------------------------------------------------------------------
(* History of two invocations of toggleRelay for one relay.  The observation
   starts at any invocation at which the button shows the backend's state;
   `before` is the button at that moment, `after` the button when both
   invocations have completed.  An invocation that returns at the guard is
   complete at once.  sent counts the observed invocations that sent a
   request.  The observation is void as soon as an observed request is not
   answered with success, or another relay request is handled by the backend
   or applied by the page before both invocations have completed. *)
ObsFinish(o) ==
    IF o.stage = "two" /\ ~o.inflight
    THEN [o EXCEPT !.stage = "done", !.after = relayBtn'[o.relay]]
    ELSE o

ObsInvoke(r) ==
    LET sends == ~relayToggling IN
    IF obs.stage = "idle"
    THEN obs' \in {obs} \cup
                  IF relayBtn[r] \in {"none", RelayClass(relayBackend[r])}
                  THEN {[stage |-> "one", relay |-> r, before |-> relayBtn[r],
                         after |-> "none", inflight |-> sends,
                         sent |-> IF sends THEN 1 ELSE 0]}
                  ELSE {}
    ELSE IF obs.stage = "one" /\ obs.relay = r
    THEN obs' = ObsFinish([obs EXCEPT !.stage = "two",
                                      !.inflight = @ \/ sends,
                                      !.sent = IF sends THEN @ + 1 ELSE @])
    ELSE IF obs.stage \in {"one", "two"} /\ sends
    THEN obs' = ObsVoid
    ELSE UNCHANGED obs

ObsToggleDone(outcome) ==
    IF obs.stage \in {"one", "two"}
    THEN IF obs.inflight /\ outcome = "ok"
         THEN obs' = ObsFinish([obs EXCEPT !.inflight = FALSE])
         ELSE obs' = ObsVoid
    ELSE UNCHANGED obs

ObsServe(i) ==
    IF obs.stage \in {"one", "two"}
         /\ ~(relayReqs[i].op = "toggle" /\ obs.inflight)
         /\ relayReqs[i].op # "status"
    THEN obs' = ObsVoid
    ELSE UNCHANGED obs

ObsOther ==
    IF obs.stage \in {"one", "two"} /\ relayBtn' # relayBtn
    THEN obs' = ObsVoid
    ELSE UNCHANGED obs

RelayMessages == {"Relay switched", Undefined}

NextRelay ==
    \/ \E r \in RelayIds : toggleRelay(r) /\ UNCHANGED <<obs, outsideRelay>>
    \/ \E r \in RelayIds, s \in BOOLEAN :
          setRelayState(r, s) /\ UNCHANGED <<obs, outsideRelay>>
    \/ refreshRelayStates /\ UNCHANGED <<obs, outsideRelay>>
    \/ \E i \in 1..MaxRelayReqs : ServeRelay(i) /\ UNCHANGED <<obs, outsideRelay>>
    \/ \E i \in 1..MaxRelayReqs, o \in Outcomes, m \in RelayMessages :
          toggleRelayDone(i, o, m) /\ UNCHANGED <<obs, outsideRelay>>
    \/ \E i \in 1..MaxRelayReqs, o \in Outcomes :
          setRelayStateDone(i, o) /\ UNCHANGED <<obs, outsideRelay>>
    \/ \E i \in 1..MaxRelayReqs, o \in Outcomes :
          refreshRelayStatesDone(i, o) /\ UNCHANGED <<obs, outsideRelay>>
    \/ AlertTimeout /\ UNCHANGED <<relayVars, obs, outsideRelay>>

SpecRelay == Init /\ [][NextRelay]_vars

\* the same steps, with the observation of two toggleRelay invocations; the
\* behaviour is followed until the observation has ended
ObsOpen == obs.stage \notin {"done", "void"}

NextRelayObs ==
    \/ \E r \in RelayIds :
          ObsOpen /\ toggleRelay(r) /\ ObsInvoke(r) /\ UNCHANGED outsideRelay
    \/ \E r \in RelayIds, s \in BOOLEAN :
          ObsOpen /\ setRelayState(r, s) /\ UNCHANGED <<obs, outsideRelay>>
    \/ ObsOpen /\ refreshRelayStates /\ UNCHANGED <<obs, outsideRelay>>
    \/ \E i \in 1..MaxRelayReqs :
          ObsOpen /\ ServeRelay(i) /\ ObsServe(i) /\ UNCHANGED outsideRelay
    \/ \E i \in 1..MaxRelayReqs, o \in Outcomes, m \in RelayMessages :
          ObsOpen /\ toggleRelayDone(i, o, m) /\ ObsToggleDone(o) /\ UNCHANGED outsideRelay
    \/ \E i \in 1..MaxRelayReqs, o \in Outcomes :
          ObsOpen /\ setRelayStateDone(i, o) /\ ObsOther /\ UNCHANGED outsideRelay
    \/ \E i \in 1..MaxRelayReqs, o \in Outcomes :
          ObsOpen /\ refreshRelayStatesDone(i, o) /\ ObsOther /\ UNCHANGED outsideRelay
    \/ ObsOpen /\ AlertTimeout /\ UNCHANGED <<relayVars, obs, outsideRelay>>

SpecRelayObs == Init /\ [][NextRelayObs]_vars

----------------------------------------------------------------------------
(* C5 (as stated): toggleRelay invoked twice for a relay, with any timing of
   the two invocations, against a backend that flips the relay on each
   toggle request and reports the new state: once both invocations have
   completed the button is rendered as before the first. *)
C5_ToggleTwiceAnyTiming ==
    obs.stage = "done" => obs.after = obs.before

(* C5 (amended): the same, when both invocations send their request, that
   is when the second is made after the first has completed and while no
   other toggle is in flight.  (An invocation made while a toggle is in
   flight returns at the relayToggling guard and sends nothing.) *)
C5_ToggleTwiceSequential ==
    (obs.stage = "done" /\ obs.sent = 2) => obs.after = obs.before

C5_Witness ==
    /\ obs.stage = "done" /\ obs.sent = 2
    /\ obs.before # "none"
    /\ obs.after = obs.before

----------------------------------------------------------------------------
(* C10: a relay button's rendered state changes only when a successful
   toggle, set or status response is applied, and then to the state that
   response carries; a toggle or set that fails (transport error, non-OK
   status, unparsable body, success:false) changes no button. *)
RelayCarried(req, r) ==
    IF req.op = "status" THEN r \in DOMAIN req.states /\ relayBtn'[r] = RelayClass(req.states[r])
    ELSE req.relay = r /\ relayBtn'[r] = RelayClass(req.state)

C10_RenderOnlyFromResponse ==
    [][ /\ \A r \in RelayIds : relayBtn'[r] # relayBtn[r] =>
              \E i \in 1..Len(relayReqs) :
                 /\ relayReqs[i].served
                 /\ relayReqs' = RemoveAt(relayReqs, i)
                 /\ event'.phase = "done" /\ event'.outcome = "ok"
                 /\ RelayCarried(relayReqs[i], r)
        /\ (event'.phase = "done" /\ event'.op \in {"toggleRelay", "setRelayState"}
              /\ event'.outcome # "ok") => relayBtn' = relayBtn
      ]_vars

\* a toggle whose response was lost: the backend has switched, the button has not
C10_Witness ==
    /\ event.op = "toggleRelay" /\ event.phase = "done" /\ event.outcome = "neterr"
    /\ \E r \in RelayIds : relayBtn[r] # "none" /\ relayBtn[r] # RelayClass(relayBackend[r])


----------------------------------------------------------------------------
(* Status poller: updateStatus and the printing overlay *)

\* a status payload of the backend
PrintStates == {"IDLE", "PRINTING", "PAUSED", "FINISHED"}
FileNames   == {"a.ctb"}
StatusPayloads ==
    [connected : BOOLEAN,
     print_status : [state : PrintStates, progress_percent : {0, 50},
                     total_bytes : {20000}],
     z_position : {5},
     selected_file : FileNames \cup {Null}]

\* Number.prototype.toFixed for the whole numbers of the payloads
toFixed(n, digits) ==
    IF digits = 0 THEN ToString(n)
    ELSE IF digits = 1 THEN ToString(n) \o ".0"
    ELSE ToString(n) \o ".00"

\* Math.round(a / b) for a >= 0, b > 0
RoundDiv(a, b) == (2 * a + b) \div (2 * b)

Max2(a, b) == IF a >= b THEN a ELSE b

\* showPrintingView: the class (and the start time) is set only when the
\* overlay is not active yet
showPrintingView(ov, start, status) ==
    IF ~ov.active
    THEN [overlay |-> [ov EXCEPT !.active = TRUE],
          start |-> IF status.print_status.state = "PRINTING" /\ start = Null
                    THEN "set" ELSE start]
    ELSE [overlay |-> ov, start |-> start]

\* variant: the start time is cleared but the overlay keeps its class
hidePrintingViewKeepsClass(ov, start) ==
    [overlay |-> ov, start |-> Null]

hidePrintingView(ov, start) ==
    [overlay |-> [ov EXCEPT !.active = FALSE], start |-> Null]

\* variant: Stop is enabled while printing only
updateButtonsStopWhilePrinting(status, file) ==
    LET connected == status.connected
        printing  == status.print_status.state = "PRINTING"
        paused    == status.print_status.state = "PAUSED"
    IN  [connectBtn    |-> connected,
         disconnectBtn |-> ~connected,
         startBtn      |-> ~connected \/ printing \/ paused \/ file = Null,
         pauseBtn      |-> ~connected \/ ~printing,
         resumeBtn     |-> ~connected \/ ~paused,
         stopBtn       |-> ~connected \/ ~printing]

\* updateButtons
updateButtons(status, file) ==
    LET connected == status.connected
        printing  == status.print_status.state = "PRINTING"
        paused    == status.print_status.state = "PAUSED"
    IN  [connectBtn    |-> connected,
         disconnectBtn |-> ~connected,
         startBtn      |-> ~connected \/ printing \/ paused \/ file = Null,
         pauseBtn      |-> ~connected \/ ~printing,
         resumeBtn     |-> ~connected \/ ~paused,
         stopBtn       |-> ~connected \/ (~printing /\ ~paused)]

\* updatePrintingOverlay: nothing is written while the overlay is hidden.
\* The remaining time is computed from the clock; only whether a time or the
\* placeholder is shown is kept.
updatePrintingOverlay(ov, start, status, file) ==
    IF ~ov.active THEN ov
    ELSE LET progress == status.print_status.progress_percent
             estimatedLayers == Max2(1, RoundDiv(status.print_status.total_bytes, 10000))
             currentLayer == RoundDiv(progress * estimatedLayers, 100)
         IN  [ov EXCEPT
                !.printingFileName = OrElseNull(status.selected_file, OrElseNull(file, "Unknown File")),
                !.printingLayerInfo = "Layer " \o ToString(currentLayer) \o " of "
                                        \o ToString(estimatedLayers),
                !.printingProgress = toFixed(progress, 0) \o "%",
                !.printingZPos = toFixed(status.z_position, 2),
                !.printingTimeLeft = IF start # Null /\ progress > 1 THEN "time" ELSE "--",
                !.printingBytes = toFixed(progress, 0) \o "%"]

\* the status card fields written by updateStatus from a payload
StatusFields(status) ==
    [connectionStatus |->
        IF status.connected
        THEN [text |-> "Connected", className |-> "status-value status-connected"]
        ELSE [text |-> "Disconnected", className |-> "status-value status-disconnected"],
     printStatus |->
        [text |-> status.print_status.state,
         className |-> IF status.print_status.state = "PRINTING"
                       THEN "status-value status-printing"
                       ELSE IF status.print_status.state = "PAUSED"
                            THEN "status-value status-warning"
                            ELSE "status-value"],
     progressStatus |-> toFixed(status.print_status.progress_percent, 1) \o "%",
     progressBar |-> ToString(status.print_status.progress_percent) \o "%",
     zPosition |-> toFixed(status.z_position, 2) \o " mm"]

\* the overlay and start time after the print-state branch of updateStatus
StatusView(ov, start, status) ==
    IF status.print_status.state \in {"PRINTING", "PAUSED"}
    THEN showPrintingView(ov, start, status)
    ELSE IF status.print_status.state = "IDLE"
         THEN hidePrintingView(ov, start)
         ELSE [overlay |-> ov, start |-> start]

\* updateStatus, up to the fetch: page load and every tick of the 3000 ms timer
updateStatus ==
    /\ Len(statusReqs) < MaxPolls
    /\ statusReqs' = Append(statusReqs, [superseded |-> FALSE])
    /\ event' = Ev("updateStatus", "sent", "none", 0, FALSE)
    /\ UNCHANGED <<alertArea, statusDom, buttons, printingOverlay, printStartTime,
                   selectedFile, lastPoll>>

\* polls issued before poll i are superseded once the response of i is applied
Supersede(reqs, i) ==
    [j \in 1..(Len(reqs) - 1) |->
        IF j < i THEN [reqs[j] EXCEPT !.superseded = TRUE] ELSE reqs[j + 1]]

\* variant: a response of a poll that a later poll has overtaken is dropped
updateStatusDoneInOrder(i, outcome, status) ==
    /\ i \in 1..Len(statusReqs)
    /\ statusReqs' = IF outcome = "ok" THEN Supersede(statusReqs, i)
                     ELSE RemoveAt(statusReqs, i)
    /\ IF outcome = "ok" /\ ~statusReqs[i].superseded
       THEN LET view == StatusView(printingOverlay, printStartTime, status) IN
            /\ statusDom' = StatusFields(status)
            /\ printStartTime' = view.start
            /\ buttons' = updateButtons(status, selectedFile)
            /\ printingOverlay' = updatePrintingOverlay(view.overlay, view.start,
                                                        status, selectedFile)
            /\ lastPoll' = [status |-> status, superseded |-> FALSE]
       ELSE IF outcome = "ok"
       THEN /\ lastPoll' = [status |-> status, superseded |-> TRUE]
            /\ UNCHANGED <<statusDom, buttons, printingOverlay, printStartTime>>
       ELSE IF outcome \in {"appfail", "httperr"}
       THEN /\ statusDom' = [statusDom EXCEPT !.connectionStatus =
                   [text |-> "Disconnected", className |-> "status-value status-disconnected"]]
            /\ UNCHANGED <<buttons, printingOverlay, printStartTime, lastPoll>>
       ELSE UNCHANGED <<statusDom, buttons, printingOverlay, printStartTime, lastPoll>>
    /\ event' = Ev("updateStatus", "done", outcome, 0, FALSE)
    /\ UNCHANGED <<alertArea, selectedFile>>

\* variant: a poll that fails marks the connection field Disconnected
updateStatusDoneMarksOffline(i, outcome, status) ==
    /\ i \in 1..Len(statusReqs)
    /\ statusReqs' = IF outcome = "ok" THEN Supersede(statusReqs, i)
                     ELSE RemoveAt(statusReqs, i)
    /\ IF outcome = "ok"
       THEN LET view == StatusView(printingOverlay, printStartTime, status) IN
            /\ statusDom' = StatusFields(status)
            /\ printStartTime' = view.start
            /\ buttons' = updateButtons(status, selectedFile)
            /\ printingOverlay' = updatePrintingOverlay(view.overlay, view.start,
                                                        status, selectedFile)
            /\ lastPoll' = [status |-> status, superseded |-> statusReqs[i].superseded]
       ELSE /\ statusDom' = [statusDom EXCEPT !.connectionStatus =
                   [text |-> "Disconnected", className |-> "status-value status-disconnected"]]
            /\ UNCHANGED <<buttons, printingOverlay, printStartTime, lastPoll>>
    /\ event' = Ev("updateStatus", "done", outcome, 0, FALSE)
    /\ UNCHANGED <<alertArea, selectedFile>>

\* updateStatus after the await.  The HTTP status is not looked at: an error
\* answer whose body is JSON ("appfail", "httperr") has no print_status, so
\* the connection field is written from the missing `connected` and the next
\* line throws into the catch.  A rejected fetch or an unparsable body goes
\* to the catch at once.
updateStatusDone(i, outcome, status) ==
    /\ i \in 1..Len(statusReqs)
    /\ statusReqs' = IF outcome = "ok" THEN Supersede(statusReqs, i)
                     ELSE RemoveAt(statusReqs, i)
    /\ IF outcome = "ok"
       THEN LET view == StatusView(printingOverlay, printStartTime, status) IN
            /\ statusDom' = StatusFields(status)
            /\ printStartTime' = view.start
            /\ buttons' = updateButtons(status, selectedFile)
            /\ printingOverlay' = updatePrintingOverlay(view.overlay, view.start,
                                                        status, selectedFile)
            /\ lastPoll' = [status |-> status, superseded |-> statusReqs[i].superseded]
       ELSE IF outcome \in {"appfail", "httperr"}
       THEN /\ statusDom' = [statusDom EXCEPT !.connectionStatus =
                   [text |-> "Disconnected", className |-> "status-value status-disconnected"]]
            /\ UNCHANGED <<buttons, printingOverlay, printStartTime, lastPoll>>
       ELSE UNCHANGED <<statusDom, buttons, printingOverlay, printStartTime, lastPoll>>
    /\ event' = Ev("updateStatus", "done", outcome, 0, FALSE)
    /\ UNCHANGED <<alertArea, selectedFile>>

\* closePrintingView: the close buttons of the overlay
closePrintingView ==
    /\ printingOverlay.active
    /\ printingOverlay' = hidePrintingView(printingOverlay, printStartTime).overlay
    /\ printStartTime' = hidePrintingView(printingOverlay, printStartTime).start
    /\ event' = Ev("closePrintingView", "done", "none", 0, FALSE)
    /\ UNCHANGED <<alertArea, statusReqs, statusDom, buttons, selectedFile, lastPoll>>

NextStatus ==
    \/ updateStatus /\ UNCHANGED outsideStatus
    \/ \E i \in 1..MaxPolls, st \in StatusPayloads :
          updateStatusDone(i, "ok", st) /\ UNCHANGED outsideStatus
    \/ \E i \in 1..MaxPolls, o \in Outcomes \ {"ok"} :
          updateStatusDone(i, o, Null) /\ UNCHANGED outsideStatus
    \/ closePrintingView /\ UNCHANGED outsideStatus

SpecStatus == InitAtRest /\ [][NextStatus]_vars

\* a status response has just been handled by updateStatus
StatusApplied ==
    event.op = "updateStatus" /\ event.phase = "done" /\ event.outcome = "ok"

----------------------------------------------------------------------------
(* C2: right after updateStatus has applied a response with print state
   PRINTING the printing overlay is active; right after it has applied one
   with print state IDLE the overlay is not active, whatever it was before. *)
C2_OverlayFollowsPrintState ==
    StatusApplied =>
        /\ lastPoll.status.print_status.state = "PRINTING" => printingOverlay.active
        /\ lastPoll.status.print_status.state = "IDLE" => ~printingOverlay.active

\* an IDLE response has hidden an overlay that had been shown (its fields
\* have been written)
C2_Witness ==
    /\ StatusApplied
    /\ lastPoll.status.print_status.state = "IDLE"
    /\ ~printingOverlay.active
    /\ printingOverlay.printingFileName # "Print Job"

----------------------------------------------------------------------------
(* C9: status responses are applied in arrival order: right after a
   response has arrived the status fields show its payload, also when the
   response belongs to a poll issued before one whose response has been
   applied already; and a poll leaves flight only by the arrival of its
   response. *)
C9_LastArrivalWins ==
    [][ /\ Len(statusReqs') < Len(statusReqs) =>
              event'.op = "updateStatus" /\ event'.phase = "done"
        /\ (event'.op = "updateStatus" /\ event'.phase = "done" /\ event'.outcome = "ok") =>
              LET st == lastPoll'.status IN
              /\ statusDom'.connectionStatus.text =
                     (IF st.connected THEN "Connected" ELSE "Disconnected")
              /\ statusDom'.printStatus.text = st.print_status.state
              /\ statusDom'.progressStatus = toFixed(st.print_status.progress_percent, 1) \o "%"
              /\ statusDom'.zPosition = toFixed(st.z_position, 2) \o " mm"
      ]_vars

\* the response of an overtaken poll has arrived last and is what the page shows
C9_Witness ==
    /\ StatusApplied
    /\ lastPoll.superseded
    /\ statusDom.printStatus.text = lastPoll.status.print_status.state
    /\ statusDom.printStatus.text = "PRINTING"
    /\ printingOverlay.active

----------------------------------------------------------------------------
(* Settings modal: tabs, pending edits, save and reset *)

Put(f, k, v) == [x \in (DOMAIN f) \cup {k} |-> IF x = k THEN v ELSE f[x]]

\* the tabs of the template, and the tab the relay plugin contributes
AppTabs    == {"general", "printer"}
PluginTabs == {"relay_controller_tab"}
PluginOf(tab) == "relay_controller"

\* the onchange handlers of the form each tab renders:
\* <<section, key>> -> the values the input can be given
\* (of the inputs of the templates, the model follows two of the printer tab
\* and two of the plugin form)
AppFieldsOf(tab) ==
    IF tab = "printer" THEN {<<"printer", "serial_port">>, <<"printer", "baudrate">>}
    ELSE IF tab = "general" THEN {<<"interface", "update_interval">>}
    ELSE {}

AppKeys == {"serial_port", "baudrate", "update_interval"}

FieldValues(key) ==
    IF key = "serial_port" THEN {"/dev/ttyUSB0", "/dev/ttyACM0"}
    ELSE IF key = "baudrate" THEN {"115200"}
    ELSE IF key = "update_interval" THEN {"5000"}
    ELSE IF key = "display_mode" THEN {"toolbar"}
    ELSE {"true"}

PluginKeys == {"display_mode", "show_in_status"}

\* updateConfigValue keeping the value entered first
updateConfigValueFirstWins(section, key, value) ==
    /\ configModalActive
    /\ <<section, key>> \in AppFieldsOf(configContent)
    /\ configData' = IF section \in DOMAIN configData /\ key \in DOMAIN configData[section]
                     THEN configData
                     ELSE Put(configData, section,
                              Put(IF section \in DOMAIN configData
                                  THEN configData[section] ELSE EmptyMap, key, value))
    /\ lastEdit' = [section |-> section, key |-> key, value |-> value]
    /\ lastSent' = {} /\ lastTabs' = NoTabs
    /\ event' = Ev("updateConfigValue", "done", "none", 0, FALSE)
    /\ UNCHANGED <<alertArea, configModalActive, currentConfigTab, configContent,
                   configTabs, cfgReqs, saves>>

\* updateConfigValue
updateConfigValue(section, key, value) ==
    /\ configModalActive
    /\ <<section, key>> \in AppFieldsOf(configContent)
    /\ configData' = Put(configData, section,
                         Put(IF section \in DOMAIN configData
                             THEN configData[section] ELSE EmptyMap, key, value))
    /\ lastEdit' = [section |-> section, key |-> key, value |-> value]
    /\ lastSent' = {} /\ lastTabs' = NoTabs
    /\ event' = Ev("updateConfigValue", "done", "none", 0, FALSE)
    /\ UNCHANGED <<alertArea, configModalActive, currentConfigTab, configContent,
                   configTabs, cfgReqs, saves>>

\* updatePluginConfigValue posting the edit at once
updatePluginConfigValueAutosave(pluginName, key, value) ==
    /\ configModalActive
    /\ configContent \in PluginTabs /\ PluginOf(configContent) = pluginName
    /\ Len(saves) < MaxSaves
    /\ LET plugins == IF "plugins" \in DOMAIN configData
                      THEN configData["plugins"] ELSE EmptyMap
           mine    == IF pluginName \in DOMAIN plugins
                      THEN plugins[pluginName] ELSE EmptyMap
       IN  configData' = Put(configData, "plugins",
                             Put(plugins, pluginName, Put(mine, key, value)))
    /\ lastEdit' = [section |-> pluginName, key |-> key, value |-> value]
    /\ lastTabs' = NoTabs
    /\ lastSent' = {[url |-> "/api/config/plugins/" \o pluginName, section |-> "",
                     key |-> "", value |-> "", config |-> Put(EmptyMap, key, value)]}
    /\ saves' = Append(saves, [pending |-> 1])
    /\ event' = Ev("updatePluginConfigValue", "done", "none", 0, FALSE)
    /\ UNCHANGED <<alertArea, configModalActive, currentConfigTab, configContent,
                   configTabs, cfgReqs>>

\* updatePluginConfigValue
updatePluginConfigValue(pluginName, key, value) ==
    /\ configModalActive
    /\ configContent \in PluginTabs /\ PluginOf(configContent) = pluginName
    /\ LET plugins == IF "plugins" \in DOMAIN configData
                      THEN configData["plugins"] ELSE EmptyMap
           mine    == IF pluginName \in DOMAIN plugins
                      THEN plugins[pluginName] ELSE EmptyMap
       IN  configData' = Put(configData, "plugins",
                             Put(plugins, pluginName, Put(mine, key, value)))
    /\ lastEdit' = [section |-> pluginName, key |-> key, value |-> value]
    /\ lastSent' = {} /\ lastTabs' = NoTabs
    /\ event' = Ev("updatePluginConfigValue", "done", "none", 0, FALSE)
    /\ UNCHANGED <<alertArea, configModalActive, currentConfigTab, configContent,
                   configTabs, cfgReqs, saves>>

\* loadConfigTab, up to the first fetch of the generator it awaits
LoadReq(tabName) == [op |-> "load", tab |-> tabName, stage |-> 1]

\* openConfigModal
openConfigModal ==
    /\ ~configModalActive
    /\ Len(cfgReqs) < MaxTabLoads
    /\ configModalActive' = TRUE
    /\ cfgReqs' = Append(cfgReqs, LoadReq(currentConfigTab))
    /\ event' = Ev("openConfigModal", "done", "none", 0, FALSE)
    /\ UNCHANGED <<alertArea, configData, currentConfigTab, configContent,
                   configTabs, saves>>
    /\ lastEdit' = NoEdit /\ lastSent' = {} /\ lastTabs' = NoTabs

\* closeConfigModal: the Cancel button and the close button of the modal
closeConfigModal ==
    /\ configModalActive
    /\ configModalActive' = FALSE
    /\ event' = Ev("closeConfigModal", "done", "none", 0, FALSE)
    /\ UNCHANGED <<alertArea, configData, currentConfigTab, configContent,
                   configTabs, cfgReqs, saves>>
    /\ lastEdit' = NoEdit /\ lastSent' = {} /\ lastTabs' = NoTabs

\* the ids of the plugin tab buttons
RECURSIVE SeqToSet(_)
SeqToSet(q) == IF q = <<>> THEN {} ELSE {Head(q)} \cup SeqToSet(Tail(q))

\* switchConfigTab: a click on one of the tab buttons
switchConfigTab(tabName) ==
    /\ configModalActive
    /\ tabName \in AppTabs \cup {"plugins"} \cup SeqToSet(configTabs)
    /\ Len(cfgReqs) < MaxTabLoads
    /\ currentConfigTab' = tabName
    /\ cfgReqs' = Append(cfgReqs, LoadReq(tabName))
    /\ event' = Ev("switchConfigTab", "done", "none", 0, FALSE)
    /\ UNCHANGED <<alertArea, configData, configModalActive, configContent,
                   configTabs, saves>>
    /\ lastEdit' = NoEdit /\ lastSent' = {} /\ lastTabs' = NoTabs

\* variant: an answer for a tab that is no longer the current one is dropped
loadConfigTabDoneIfCurrent(i, outcome, tabs) ==
    /\ i \in 1..Len(cfgReqs)
    /\ cfgReqs[i].op = "load"
    /\ configContent' = IF cfgReqs[i].tab # currentConfigTab THEN configContent
                        ELSE IF outcome = "ok" THEN cfgReqs[i].tab ELSE "error"
    /\ cfgReqs' = RemoveAt(cfgReqs, i)
    /\ event' = Ev("loadConfigTab", "done", outcome, 0, FALSE)
    /\ UNCHANGED <<alertArea, configData, configModalActive, currentConfigTab,
                   configTabs, saves>>
    /\ lastEdit' = NoEdit /\ lastSent' = {} /\ lastTabs' = NoTabs

\* A tab load after an await.
\*   general / printer (generate*Config): the form, or the error notice when
\*     the fetch fails, the body is not JSON or it has no config.
\*   plugins (generatePluginsConfig): first /api/config/plugins/list, then
\*     /api/config/ui/config_tabs; a successful second answer with tabs
\*     replaces the plugin tab buttons.
\*   any other tab (loadPluginConfigTab): the plugin form when the answer
\*     has the tab, nothing otherwise.
\* `tabs` is the tab list of a config_tabs answer.
loadConfigTabDone(i, outcome, tabs) ==
    /\ i \in 1..Len(cfgReqs)
    /\ cfgReqs[i].op = "load"
    /\ LET req == cfgReqs[i] IN
       IF req.tab \in AppTabs
       THEN /\ configContent' = IF outcome = "ok" THEN req.tab ELSE "error"
            /\ cfgReqs' = RemoveAt(cfgReqs, i)
            /\ UNCHANGED configTabs
       ELSE IF req.tab = "plugins" /\ req.stage = 1
       THEN IF outcome = "ok"
            THEN /\ cfgReqs' = [cfgReqs EXCEPT ![i].stage = 2]
                 /\ UNCHANGED <<configContent, configTabs>>
            ELSE /\ configContent' = "error"
                 /\ cfgReqs' = RemoveAt(cfgReqs, i)
                 /\ UNCHANGED configTabs
       ELSE IF req.tab = "plugins"
       THEN /\ configContent' = IF outcome \in {"neterr", "badjson"}
                                THEN "error" ELSE "plugins"
            /\ configTabs' = IF outcome = "ok" /\ Len(tabs) > 0 THEN tabs ELSE configTabs
            /\ cfgReqs' = RemoveAt(cfgReqs, i)
       ELSE /\ configContent' = IF outcome = "ok" /\ req.tab \in SeqToSet(tabs)
                                THEN req.tab ELSE configContent
            /\ cfgReqs' = RemoveAt(cfgReqs, i)
            /\ UNCHANGED configTabs
    /\ event' = Ev("loadConfigTab", "done", outcome, 0, FALSE)
    /\ UNCHANGED <<alertArea, configData, configModalActive, currentConfigTab,
                   saves>>
    /\ lastEdit' = NoEdit /\ lastSent' = {}
    /\ lastTabs' = IF cfgReqs[i].tab = "plugins" /\ cfgReqs[i].stage = 2 /\ outcome = "ok"
                   THEN tabs ELSE NoTabs

\* the POSTs saveConfig builds from the pending edits; the body is
\* serialised when fetch is called
SaveRequests(cd) ==
    {[url |-> "/api/config/app", section |-> s[1], key |-> s[2],
      value |-> cd[s[1]][s[2]], config |-> EmptyMap] :
        s \in {x \in (DOMAIN cd \ {"plugins"}) \X AppKeys :
                  x[2] \in DOMAIN cd[x[1]]}}
    \cup
    (IF "plugins" \in DOMAIN cd
     THEN {[url |-> "/api/config/plugins/" \o pl, section |-> "", key |-> "",
            value |-> "", config |-> cd["plugins"][pl]] : pl \in DOMAIN cd["plugins"]}
     ELSE {})

ErrorMessage == "Failed to fetch"

\* saveConfig, up to `await Promise.all(promises)`.  With nothing pending
\* the promise list is empty and the rest of the function follows before any
\* other handler can run.
saveConfig ==
    /\ configModalActive
    /\ IF SaveRequests(configData) = {}
       THEN /\ AlertRoom(1)
            /\ alertArea' = showAlert(alertArea, "Configuration saved successfully", "success")
            /\ configData' = EmptyMap
            /\ configModalActive' = FALSE
            /\ event' = Ev("saveConfig", "done", "ok", 1, FALSE)
            /\ UNCHANGED saves
       ELSE /\ Len(saves) < MaxSaves
            /\ saves' = Append(saves, [pending |-> Cardinality(SaveRequests(configData))])
            /\ event' = Ev("saveConfig", "sent", "none", 0, FALSE)
            /\ UNCHANGED <<alertArea, configData, configModalActive>>
    /\ UNCHANGED <<currentConfigTab, configContent, configTabs, cfgReqs>>
    /\ lastEdit' = NoEdit
    /\ lastSent' = SaveRequests(configData)
    /\ lastTabs' = NoTabs

\* One request of the save k settles (pending counts those still in
\* flight).  Only a rejected fetch ("neterr") rejects Promise.all: the responses are never read, so any HTTP status and
\* any body fulfil it.  The first rejection runs the catch; the requests of
\* that save still in flight have no handler left.  Phase "done" says every
\* request of the save has settled, "caught" that some are still in flight.
saveConfigSettle(k, outcome) ==
    /\ k \in 1..Len(saves)
    /\ LET rest == saves[k].pending - 1 IN
       IF outcome = "neterr"
       THEN /\ AlertRoom(1)
            /\ alertArea' = showAlert(alertArea,
                               "Error saving configuration: " \o ErrorMessage, "error")
            /\ saves' = RemoveAt(saves, k)
            /\ event' = Ev("saveConfig", IF rest = 0 THEN "done" ELSE "caught",
                           outcome, 1, FALSE)
            /\ UNCHANGED <<configData, configModalActive>>
       ELSE IF rest = 0
       THEN /\ AlertRoom(1)
            /\ alertArea' = showAlert(alertArea, "Configuration saved successfully", "success")
            /\ configData' = EmptyMap
            /\ configModalActive' = FALSE
            /\ saves' = RemoveAt(saves, k)
            /\ event' = Ev("saveConfig", "done", outcome, 1, FALSE)
       ELSE /\ saves' = [saves EXCEPT ![k].pending = rest]
            /\ event' = Ev("saveConfig", "response", outcome, 0, FALSE)
            /\ UNCHANGED <<alertArea, configData, configModalActive>>
    /\ UNCHANGED <<currentConfigTab, configContent, configTabs, cfgReqs>>
    /\ lastEdit' = NoEdit /\ lastSent' = {} /\ lastTabs' = NoTabs

\* resetConfig, up to the fetch; confirmed is the answer to confirm()
resetConfig(confirmed) ==
    /\ configModalActive
    /\ IF ~confirmed
       THEN /\ event' = Ev("resetConfig", "declined", "none", 0, FALSE)
            /\ UNCHANGED cfgReqs
       ELSE /\ Len(cfgReqs) < MaxCfgReqs
            /\ cfgReqs' = Append(cfgReqs, [op |-> "reset", tab |-> "", stage |-> 1])
            /\ event' = Ev("resetConfig", "sent", "none", 0, FALSE)
    /\ UNCHANGED <<alertArea, configData, configModalActive, currentConfigTab,
                   configContent, configTabs, saves>>
    /\ lastEdit' = NoEdit /\ lastSent' = {} /\ lastTabs' = NoTabs

ResetToast(outcome) ==
    IF outcome = "ok" THEN Toast("Configuration reset to defaults", "success")
    ELSE IF outcome \in {"appfail", "httperr"}
         THEN Toast("Failed to reset configuration", "error")
         ELSE Toast("Error resetting configuration: " \o ErrorMessage, "error")

\* resetConfig after the await, emptying configData whatever the answer
resetConfigDoneAlwaysClears(i, outcome) ==
    /\ i \in 1..Len(cfgReqs)
    /\ cfgReqs[i].op = "reset"
    /\ AlertRoom(1)
    /\ alertArea' = Append(alertArea, ResetToast(outcome))
    /\ configData' = EmptyMap
    /\ cfgReqs' = IF outcome = "ok"
                  THEN Append(RemoveAt(cfgReqs, i), LoadReq(currentConfigTab))
                  ELSE RemoveAt(cfgReqs, i)
    /\ event' = Ev("resetConfig", "done", outcome, 1, FALSE)
    /\ UNCHANGED <<configModalActive, currentConfigTab, configContent, configTabs,
                   saves>>
    /\ lastEdit' = NoEdit /\ lastSent' = {} /\ lastTabs' = NoTabs

\* resetConfig after the await
resetConfigDone(i, outcome) ==
    /\ i \in 1..Len(cfgReqs)
    /\ cfgReqs[i].op = "reset"
    /\ AlertRoom(1)
    /\ alertArea' = Append(alertArea, ResetToast(outcome))
    /\ IF outcome = "ok"
       THEN /\ configData' = EmptyMap
            /\ cfgReqs' = Append(RemoveAt(cfgReqs, i), LoadReq(currentConfigTab))
       ELSE /\ cfgReqs' = RemoveAt(cfgReqs, i)
            /\ UNCHANGED configData
    /\ event' = Ev("resetConfig", "done", outcome, 1, FALSE)
    /\ UNCHANGED <<configModalActive, currentConfigTab, configContent, configTabs,
                   saves>>
    /\ lastEdit' = NoEdit /\ lastSent' = {} /\ lastTabs' = NoTabs

\* the tab lists a config_tabs answer can carry
TabLists == {<<>>, <<"relay_controller_tab">>}

NextCfg ==
    \/ \E f \in AppFieldsOf("printer") : \E v \in FieldValues(f[2]) :
          updateConfigValue(f[1], f[2], v) /\ UNCHANGED outsideCfg
    \/ \E t \in PluginTabs, k \in PluginKeys : \E v \in FieldValues(k) :
          updatePluginConfigValue(PluginOf(t), k, v) /\ UNCHANGED outsideCfg
    \/ Len(cfgReqs) < MaxCfgReqs /\ openConfigModal /\ UNCHANGED outsideCfg
    \/ closeConfigModal /\ UNCHANGED outsideCfg
    \/ \E t \in AppTabs \cup {"plugins"} \cup PluginTabs :
          Len(cfgReqs) < MaxCfgReqs /\ switchConfigTab(t) /\ UNCHANGED outsideCfg
    \/ \E i \in 1..MaxCfgReqs, o \in Outcomes, tabs \in TabLists :
          loadConfigTabDone(i, o, tabs) /\ UNCHANGED outsideCfg
    \/ saveConfig /\ UNCHANGED outsideCfg
    \/ \E k \in 1..MaxSaves, o \in Outcomes :
          saveConfigSettle(k, o) /\ UNCHANGED outsideCfg
    \/ \E c \in BOOLEAN : resetConfig(c) /\ UNCHANGED outsideCfg
    \/ \E i \in 1..MaxCfgReqs, o \in Outcomes : resetConfigDone(i, o) /\ UNCHANGED outsideCfg
    \/ /\ AlertTimeout
       /\ lastEdit' = NoEdit /\ lastSent' = {} /\ lastTabs' = NoTabs
       /\ UNCHANGED <<cfgVars, outsideCfg>>

SpecCfg == InitAtRest /\ [][NextCfg]_vars

\* the pending value of a field, Undefined when the field has no pending edit
Pending(cd, section, key) ==
    IF section \in DOMAIN cd /\ key \in DOMAIN cd[section] THEN cd[section][key]
    ELSE Undefined

PendingPlugin(cd, pluginName, key) ==
    IF "plugins" \in DOMAIN cd /\ pluginName \in DOMAIN cd["plugins"]
       /\ key \in DOMAIN cd["plugins"][pluginName]
    THEN cd["plugins"][pluginName][key]
    ELSE Undefined

\* C3: after closeConfigModal (Cancel, or the close button of the modal) the
\* pending-edit map configData is empty
C3_CancelDiscardsEdits ==
    event.op = "closeConfigModal" => configData = EmptyMap

\* C4, as stated: after resetConfig returns, configData is empty on every
\* path (confirmed and successful, success:false, failed request, declined)
C4_ResetAlwaysDiscards ==
    (event.op = "resetConfig" /\ event.phase \in {"done", "declined"})
        => configData = EmptyMap

\* C4, as the code has it: resetConfig empties configData when the user
\* confirms and the server answers success; on every other path (declined,
\* success:false, non-OK status, failed request) it leaves the pending edits
\* as they were
C4_ResetDiscardsOnSuccessOnly ==
    [][ (event'.op = "resetConfig")
          => IF event'.phase = "done" /\ event'.outcome = "ok"
             THEN configData' = EmptyMap
             ELSE configData' = configData
      ]_vars

\* a reset the server refused has left the pending edits in place
C4_Witness ==
    /\ event.op = "resetConfig" /\ event.phase = "done"
    /\ event.outcome = "appfail"
    /\ Pending(configData, "printer", "serial_port") # Undefined

\* the requests a save step sent are, for the pending edits cd, exactly one
\* app-config POST per pending (section, key) with its pending value and one
\* plugin POST per plugin with all of its pending keys
Flushes(sent, cd) ==
    /\ \A q \in sent :
          IF q.url = "/api/config/app"
          THEN Pending(cd, q.section, q.key) = q.value /\ q.value # Undefined
          ELSE /\ "plugins" \in DOMAIN cd
               /\ \E pl \in DOMAIN cd["plugins"] :
                     q.url = "/api/config/plugins/" \o pl /\ q.config = cd["plugins"][pl]
    /\ \A section \in DOMAIN cd \ {"plugins"} : \A key \in DOMAIN cd[section] :
          Cardinality({q \in sent : q.url = "/api/config/app"
                                     /\ q.section = section /\ q.key = key}) = 1
    /\ "plugins" \in DOMAIN cd =>
          \A pl \in DOMAIN cd["plugins"] :
             Cardinality({q \in sent : q.url = "/api/config/plugins/" \o pl}) = 1

\* C6, as stated in its last part: once all requests of a save have
\* completed, the pending-edit map is empty and the modal is closed
C6_SaveAlwaysFlushes ==
    (event.op = "saveConfig" /\ event.phase = "done")
        => (configData = EmptyMap /\ ~configModalActive)

\* C6, as the code has it: a field edit stores the value entered last;
\* saveConfig sends exactly one app-config POST per pending (section, key)
\* with that value and one POST per plugin with all of its pending keys; when
\* every request has been answered (whatever the answers say) the pending
\* edits are emptied and the modal is closed; when a request is rejected the
\* pending edits and the modal stay as they are
C6_SaveFlushes ==
    [][ /\ event'.op = "updateConfigValue"
            => Pending(configData', lastEdit'.section, lastEdit'.key) = lastEdit'.value
        /\ event'.op = "updatePluginConfigValue"
            => PendingPlugin(configData', lastEdit'.section, lastEdit'.key) = lastEdit'.value
        /\ (event'.op = "saveConfig" /\ event'.phase = "sent")
            => (Flushes(lastSent', configData) /\ lastSent' # {})
        /\ (event'.op = "saveConfig" /\ event'.phase = "done" /\ event'.outcome # "neterr")
            => (configData' = EmptyMap /\ ~configModalActive')
        /\ (event'.op = "saveConfig" /\ event'.outcome = "neterr")
            => UNCHANGED <<configData, configModalActive>>
      ]_vars

\* a save has sent two app-config POSTs and one plugin POST with two keys
C6_Witness ==
    /\ event.op = "saveConfig" /\ event.phase = "sent"
    /\ Cardinality({q \in lastSent : q.url = "/api/config/app"}) = 2
    /\ \E q \in lastSent : q.url # "/api/config/app" /\ DOMAIN q.config = PluginKeys

\* C7: config values are sent to the backend only by saveConfig: a step of
\* any other handler of the settings modal (field edit, tab switch, tab load,
\* open, close, reset) sends no config-write POST and puts none in flight
C7_WritesOnlyFromSave ==
    [][ (lastSent' # {} \/ Len(saves') > Len(saves)) => event'.op = "saveConfig" ]_vars

\* a field edit has been stored and nothing was sent or is in flight
C7_Witness ==
    /\ event.op = "updateConfigValue"
    /\ Pending(configData, "printer", "serial_port") = "/dev/ttyACM0"
    /\ lastSent = {} /\ saves = <<>>

----------------------------------------------------------------------------
(* Printer commands and file actions *)

CmdReq(op, arg) == [op |-> op, arg |-> arg]

\* what the backend says in the body of an answer
ServerMessage == "Printer is busy"
OkMessage     == "Done"

\* the JSON body of an answer: a failure carries the message of the server
\* under both keys the handlers read (message, error); an HTTP error status
\* comes with such a body too (the handlers below never look at the status)
FailBody == [success |-> FALSE, message |-> ServerMessage, error |-> ServerMessage]
OkBodies == {[success |-> TRUE, message |-> m, error |-> Undefined] :
                m \in {Undefined, OkMessage}}
NoBody   == [success |-> FALSE, message |-> Undefined, error |-> Undefined]
CmdBodies(outcome) ==
    IF outcome = "ok" THEN OkBodies
    ELSE IF outcome \in {"appfail", "httperr"} THEN {FailBody}
    ELSE {NoBody}

\* a handler up to its fetch: it queues the request and shows n toasts
CmdSend(op, arg, n) ==
    /\ Len(cmdReqs) < MaxCmdReqs
    /\ cmdReqs' = Append(cmdReqs, CmdReq(op, arg))
    /\ event' = Ev(op, "sent", "none", n, FALSE)

\* variant: the handler sends its request again when the first one throws
CmdEscapesRetrying(i, outcome) ==
    /\ cmdReqs' = Append(RemoveAt(cmdReqs, i), cmdReqs[i])
    /\ event' = Ev(cmdReqs[i].op, "done", outcome, 0, TRUE)
    /\ UNCHANGED <<alertArea, selectedFile, fileList>>

\* `await fetch` or `await response.json()` throws in a handler without
\* try/catch: the promise of the handler rejects and nothing handles it
CmdEscapes(i, outcome) ==
    /\ cmdReqs' = RemoveAt(cmdReqs, i)
    /\ event' = Ev(cmdReqs[i].op, "done", outcome, 0, TRUE)
    /\ UNCHANGED <<alertArea, selectedFile, fileList>>

\* showAlert(result.message, result.success ? 'success' : 'error'), the tail
\* of disconnectPrinter, printFile, pausePrint, resumePrint, stopPrint, homeZ,
\* moveZ and recoverUSB
CmdShowsMessage(i, outcome, result) ==
    IF outcome \in {"neterr", "badjson"}
    THEN CmdEscapes(i, outcome)
    ELSE /\ AlertRoom(1)
         /\ alertArea' = showAlert(alertArea, result.message,
                                   IF result.success THEN "success" ELSE "error")
         /\ cmdReqs' = RemoveAt(cmdReqs, i)
         /\ event' = Ev(cmdReqs[i].op, "done", outcome, 1, FALSE)
         /\ UNCHANGED <<selectedFile, fileList>>

\* connectPrinter, up to the fetch
connectPrinter ==
    /\ CmdSend("connectPrinter", Null, 0)
    /\ UNCHANGED <<alertArea, selectedFile, fileList>>

\* connectPrinter after the awaits
connectPrinterDone(i, outcome, result) ==
    /\ i \in 1..Len(cmdReqs)
    /\ cmdReqs[i].op = "connectPrinter"
    /\ IF outcome \in {"neterr", "badjson"}
       THEN CmdEscapes(i, outcome)
       ELSE /\ AlertRoom(1)
            /\ alertArea' = showAlert(alertArea,
                               OrElse(result.message,
                                      IF result.success THEN "Connected" ELSE result.error),
                               IF result.success THEN "success" ELSE "error")
            /\ cmdReqs' = RemoveAt(cmdReqs, i)
            /\ event' = Ev("connectPrinter", "done", outcome, 1, FALSE)
            /\ UNCHANGED <<selectedFile, fileList>>

\* pausePrint, up to the fetch
pausePrint ==
    /\ CmdSend("pausePrint", Null, 0)
    /\ UNCHANGED <<alertArea, selectedFile, fileList>>

\* pausePrint after the awaits
pausePrintDone(i, outcome, result) ==
    /\ i \in 1..Len(cmdReqs)
    /\ cmdReqs[i].op = "pausePrint"
    /\ CmdShowsMessage(i, outcome, result)

\* selectFile, up to the fetch
selectFile(filename) ==
    /\ CmdSend("selectFile", filename, 0)
    /\ UNCHANGED <<alertArea, selectedFile, fileList>>

\* selectFile after the awaits
selectFileDone(i, outcome, result) ==
    /\ i \in 1..Len(cmdReqs)
    /\ cmdReqs[i].op = "selectFile"
    /\ IF outcome \in {"neterr", "badjson"}
       THEN CmdEscapes(i, outcome)
       ELSE /\ AlertRoom(1)
            /\ IF result.success
               THEN /\ selectedFile' = cmdReqs[i].arg
                    /\ alertArea' = showAlert(alertArea, "Selected: " \o cmdReqs[i].arg,
                                              "success")
               ELSE /\ alertArea' = showAlert(alertArea, result.error, "error")
                    /\ UNCHANGED selectedFile
            /\ cmdReqs' = RemoveAt(cmdReqs, i)
            /\ event' = Ev("selectFile", "done", outcome, 1, FALSE)
            /\ UNCHANGED fileList

\* startPrint, up to the fetch of the printFile it awaits
startPrint ==
    /\ IF selectedFile = Null
       THEN /\ AlertRoom(1)
            /\ alertArea' = showAlert(alertArea, "No file selected", "warning")
            /\ event' = Ev("startPrint", "done", "none", 1, FALSE)
            /\ UNCHANGED cmdReqs
       ELSE /\ CmdSend("startPrint", selectedFile, 0)
            /\ UNCHANGED alertArea
    /\ UNCHANGED <<selectedFile, fileList>>

\* printFile after the awaits, awaited by startPrint
startPrintDone(i, outcome, result) ==
    /\ i \in 1..Len(cmdReqs)
    /\ cmdReqs[i].op = "startPrint"
    /\ CmdShowsMessage(i, outcome, result)

\* uploadFiles, up to the fetch
uploadFiles ==
    /\ AlertRoom(1)
    /\ alertArea' = showAlert(alertArea, "Uploading...", "warning")
    /\ CmdSend("uploadFiles", Null, 1)
    /\ UNCHANGED <<selectedFile, fileList>>

\* uploadFiles after the awaits; a successful upload calls updateFiles, which
\* runs to its fetch
uploadFilesDone(i, outcome, result) ==
    /\ i \in 1..Len(cmdReqs)
    /\ cmdReqs[i].op = "uploadFiles"
    /\ AlertRoom(1)
    /\ IF outcome \in {"neterr", "badjson"}
       THEN /\ alertArea' = showAlert(alertArea, "Upload error: " \o ErrorMessage, "error")
            /\ cmdReqs' = RemoveAt(cmdReqs, i)
       ELSE IF result.success
       THEN /\ alertArea' = showAlert(alertArea, "Uploaded 1 files successfully", "success")
            /\ cmdReqs' = Append(RemoveAt(cmdReqs, i), CmdReq("updateFiles", Null))
       ELSE /\ alertArea' = showAlert(alertArea, "Upload failed", "error")
            /\ cmdReqs' = RemoveAt(cmdReqs, i)
    /\ event' = Ev("uploadFiles", "done", outcome, 1, FALSE)
    /\ UNCHANGED <<selectedFile, fileList>>

\* updateFiles after the awaits: the list of the answer, the empty notice, or
\* the error notice (a body that is no array throws at files.map)
updateFilesDone(i, outcome, files) ==
    /\ i \in 1..Len(cmdReqs)
    /\ cmdReqs[i].op = "updateFiles"
    /\ fileList' = IF outcome # "ok" THEN [note |-> "Error loading files", files |-> <<>>]
                   ELSE IF Len(files) = 0 THEN [note |-> "No files found", files |-> <<>>]
                   ELSE [note |-> "", files |-> files]
    /\ cmdReqs' = RemoveAt(cmdReqs, i)
    /\ event' = Ev("updateFiles", "done", outcome, 0, FALSE)
    /\ UNCHANGED <<alertArea, selectedFile>>

\* the file lists /api/files can answer
FileLists == {<<>>, <<"a.ctb">>}

NextCmd ==
    \/ connectPrinter /\ UNCHANGED outsideCmd
    \/ \E i \in 1..MaxCmdReqs, o \in Outcomes : \E b \in CmdBodies(o) :
          connectPrinterDone(i, o, b) /\ UNCHANGED outsideCmd
    \/ pausePrint /\ UNCHANGED outsideCmd
    \/ \E i \in 1..MaxCmdReqs, o \in Outcomes : \E b \in CmdBodies(o) :
          pausePrintDone(i, o, b) /\ UNCHANGED outsideCmd
    \/ \E f \in FileNames : selectFile(f) /\ UNCHANGED outsideCmd
    \/ \E i \in 1..MaxCmdReqs, o \in Outcomes : \E b \in CmdBodies(o) :
          selectFileDone(i, o, b) /\ UNCHANGED outsideCmd
    \/ startPrint /\ UNCHANGED outsideCmd
    \/ \E i \in 1..MaxCmdReqs, o \in Outcomes : \E b \in CmdBodies(o) :
          startPrintDone(i, o, b) /\ UNCHANGED outsideCmd
    \/ uploadFiles /\ UNCHANGED outsideCmd
    \/ \E i \in 1..MaxCmdReqs, o \in Outcomes : \E b \in CmdBodies(o) :
          uploadFilesDone(i, o, b) /\ UNCHANGED outsideCmd
    \/ \E i \in 1..MaxCmdReqs, o \in Outcomes, files \in FileLists :
          updateFilesDone(i, o, files) /\ UNCHANGED outsideCmd
    \/ AlertTimeout /\ UNCHANGED <<selectedFile, cmdVars, outsideCmd>>

SpecCmd == InitAtRest /\ [][NextCmd]_vars

\* the handlers a user action starts
UserActions == {"connectPrinter", "pausePrint", "selectFile", "startPrint", "uploadFiles"}

\* C1: when the fetch of an operation fails (the request rejects), no
\* rejection escapes the operation uncaught and the operation shows exactly
\* one toast for the failure
C1_FetchFailureOneToast ==
    (event.phase = "done" /\ event.outcome = "neterr")
        => (~event.escaped /\ event.shown = 1)

\* C8: when the server answers a user action with success:false and a
\* message, the step shows exactly one toast, an error toast whose text is
\* the message of the server
C8_ServerMessageVerbatim ==
    (event.op \in UserActions /\ event.phase = "done" /\ event.outcome = "appfail")
        => StepToasts = <<Toast(ServerMessage, "error")>>

----------------------------------------------------------------------------
(* Further properties of the relay controller *)

\* C11: the toggleRelay step that sends the toggle request re-renders the
\* button of that relay, before the response to the request has arrived
C11_OptimisticRender ==
    [][ (event'.op = "toggleRelay" /\ event'.phase = "sent") => relayBtn' # relayBtn ]_vars

----------------------------------------------------------------------------
(* The page timer, the USB poller and the plugin status items *)

\* free space is counted in MiB here (units of 1024 * 1024 bytes), so that
\* `status.usb_space.free / (1024 * 1024 * 1024)` is free / 1024
MiBPerGiB == 1024

\* (free / (1024 * 1024 * 1024)).toFixed(1)
FreeGB(free) ==
    LET tenths == RoundDiv(free * 10, MiBPerGiB)
    IN  ToString(tenths \div 10) \o "." \o ToString(tenths % 10)

\* the answers of /api/usb_status
UsbPayloads == [service_running : BOOLEAN, mounted : BOOLEAN, free : {0, 2 * MiBPerGiB}]

\* the three fields checkUSB writes from an answer
UsbFields(status) ==
    [usbService |-> IF status.service_running THEN "Running" ELSE "Stopped",
     usbMount   |-> IF status.mounted THEN "Mounted" ELSE "Not Mounted",
     usbSpace   |-> IF status.free # 0 THEN FreeGB(status.free) \o " GB" ELSE "Unknown"]

\* checkUSB after the awaits.  An error answer with a JSON body has none of
\* the fields, which reads as stopped, not mounted, unknown; a rejected fetch
\* or an unparsable body goes to the catch, which only logs.
checkUSBDone(outcome, status) ==
    /\ usbReqs > 0
    /\ usbReqs' = usbReqs - 1
    /\ usbDom' = IF outcome = "ok" THEN UsbFields(status)
                 ELSE IF outcome \in {"appfail", "httperr"}
                 THEN UsbFields([service_running |-> FALSE, mounted |-> FALSE, free |-> 0])
                 ELSE usbDom
    /\ event' = Ev("checkUSB", "done", outcome, 0, FALSE)
    /\ UNCHANGED <<alertArea, updateInterval, itemReqs, pluginStatusItems,
                   additionalStatusItems>>
    /\ lastItems' = <<>>

\* a status bar item: its content, and its priority when it has one
ItemContents == {"A", "B"}
Priorities   == {0, 10, 60}
Items == [content : ItemContents] \cup [content : ItemContents, priority : Priorities]

HasPriority(item) == "priority" \in DOMAIN item

\* a.priority || 100
SortKey(item) == IF HasPriority(item) /\ item.priority # 0 THEN item.priority ELSE 100

\* items.sort((a, b) => (a.priority || 100) - (b.priority || 100)):
\* Array.prototype.sort is stable
RECURSIVE InsertItem(_, _)
InsertItem(sorted, item) ==
    IF sorted = <<>> THEN <<item>>
    ELSE IF SortKey(item) < SortKey(Head(sorted))
         THEN <<item>> \o sorted
         ELSE <<Head(sorted)>> \o InsertItem(Tail(sorted), item)

RECURSIVE SortItems(_)
SortItems(items) ==
    IF items = <<>> THEN <<>>
    ELSE InsertItem(SortItems(SubSeq(items, 1, Len(items) - 1)), items[Len(items)])

\* item.priority && item.priority < 50
InToolbar(item) == HasPriority(item) /\ item.priority # 0 /\ item.priority < 50
InAdditional(item) == ~InToolbar(item)

\* variant: the containers are not emptied before the items are appended
updatePluginStatusItemsAppending(toolbar, additional, items) ==
    [toolbar    |-> toolbar \o SelectSeq(SortItems(items), InToolbar),
     additional |-> additional \o SelectSeq(SortItems(items), InAdditional)]

\* updatePluginStatusItems: sort, empty both containers, append each item to
\* its container
updatePluginStatusItems(toolbar, additional, items) ==
    [toolbar    |-> SelectSeq(SortItems(items), InToolbar),
     additional |-> SelectSeq(SortItems(items), InAdditional)]

\* loadPluginStatusItems after the awaits: only `result.success &&
\* result.items` changes the page
loadPluginStatusItemsDone(outcome, items) ==
    /\ itemReqs > 0
    /\ itemReqs' = itemReqs - 1
    /\ IF outcome = "ok"
       THEN LET after == updatePluginStatusItems(pluginStatusItems,
                                                 additionalStatusItems, items)
            IN  /\ pluginStatusItems' = after.toolbar
                /\ additionalStatusItems' = after.additional
                /\ lastItems' = items
       ELSE /\ UNCHANGED <<pluginStatusItems, additionalStatusItems>>
            /\ lastItems' = <<>>
    /\ event' = Ev("loadPluginStatusItems", "done", outcome, 0, FALSE)
    /\ UNCHANGED <<alertArea, updateInterval, usbReqs, usbDom>>

\* variant: a tick issues no status poll while an earlier one is in flight
IntervalTickUnlessBusy ==
    /\ updateInterval # 0
    /\ Len(statusReqs) < MaxPolls /\ usbReqs < MaxSidePolls /\ itemReqs < MaxSidePolls
    /\ statusReqs' = IF statusReqs = <<>> THEN Append(statusReqs, [superseded |-> FALSE])
                     ELSE statusReqs
    /\ usbReqs' = usbReqs + 1
    /\ itemReqs' = itemReqs + 1
    /\ event' = Ev("intervalTick", "sent", "none", 0, FALSE)
    /\ lastItems' = <<>>
    /\ UNCHANGED <<alertArea, updateInterval, usbDom, pluginStatusItems,
                   additionalStatusItems>>

\* the callback of the 3000 ms timer: updateStatus(), checkUSB() and
\* loadPluginStatusItems(), each up to its fetch
IntervalTick ==
    /\ updateInterval # 0
    /\ Len(statusReqs) < MaxPolls /\ usbReqs < MaxSidePolls /\ itemReqs < MaxSidePolls
    /\ statusReqs' = Append(statusReqs, [superseded |-> FALSE])
    /\ usbReqs' = usbReqs + 1
    /\ itemReqs' = itemReqs + 1
    /\ event' = Ev("intervalTick", "sent", "none", 0, FALSE)
    /\ lastItems' = <<>>
    /\ UNCHANGED <<alertArea, updateInterval, usbDom, pluginStatusItems,
                   additionalStatusItems>>

\* the beforeunload handler: clearInterval(updateInterval)
beforeunload ==
    /\ updateInterval # 0
    /\ updateInterval' = 0
    /\ event' = Ev("beforeunload", "done", "none", 0, FALSE)
    /\ lastItems' = <<>>
    /\ UNCHANGED <<alertArea, usbReqs, usbDom, itemReqs, pluginStatusItems,
                   additionalStatusItems>>

outsidePoll == <<relayVars, obs, statusVars, cfgVars, cfgHistory, cmdVars, consoleVars>>

\* the answers the timer behaviours draw from
TimerPayloads ==
    {st \in StatusPayloads :
        /\ st.print_status.progress_percent = 50 /\ st.selected_file = Null
        /\ st.connected /\ st.print_status.state = "PRINTING"}
TimerUsbPayloads == {u \in UsbPayloads : u.mounted /\ u.service_running /\ u.free # 0}
TimerItemLists == {<<[content |-> "A", priority |-> 10], [content |-> "B"]>>}
TimerOutcomes == {"ok", "neterr"}

\* the page with its timer running: polls, their answers in any order and
\* with any outcome, a change of update_interval in the settings, and the
\* beforeunload event
NextTimer ==
    \/ /\ IntervalTick
       /\ UNCHANGED <<statusDom, buttons, printingOverlay, printStartTime, selectedFile,
                      lastPoll, relayVars, obs, cfgVars, cfgHistory, cmdVars,
                      consoleVars>>
    \/ \E i \in 1..MaxPolls, st \in TimerPayloads :
          updateStatusDone(i, "ok", st) /\ UNCHANGED outsideStatus
    \/ \E i \in 1..MaxPolls, o \in Outcomes \ {"ok"} :
          updateStatusDone(i, o, Null) /\ UNCHANGED outsideStatus
    \/ \E o \in TimerOutcomes, u \in TimerUsbPayloads :
          checkUSBDone(o, u) /\ UNCHANGED outsidePoll
    \/ \E o \in TimerOutcomes, items \in TimerItemLists :
          loadPluginStatusItemsDone(o, items) /\ UNCHANGED outsidePoll
    \/ beforeunload /\ UNCHANGED outsidePoll
    \/ Len(cfgReqs) < MaxCfgReqs /\ openConfigModal /\ UNCHANGED outsideCfg
    \/ \E i \in 1..MaxCfgReqs, o \in TimerOutcomes :
          loadConfigTabDone(i, o, <<>>) /\ UNCHANGED outsideCfg
    \/ \E f \in AppFieldsOf("general") : \E v \in FieldValues(f[2]) :
          updateConfigValue(f[1], f[2], v) /\ UNCHANGED outsideCfg
    \/ saveConfig /\ UNCHANGED outsideCfg
    \/ \E k \in 1..MaxSaves, o \in TimerOutcomes :
          saveConfigSettle(k, o) /\ UNCHANGED outsideCfg
    \/ /\ AlertTimeout
       /\ lastEdit' = NoEdit /\ lastSent' = {} /\ lastTabs' = NoTabs
       /\ UNCHANGED <<cfgVars, outsideCfg>>

SpecTimer == InitAtRest /\ [][NextTimer]_vars

\* C12: every tick of the timer issues a status poll, whatever is in flight
\* and however earlier polls ended, and the one timer keeps running with its
\* period of 3000 ms through every step but beforeunload (answers of any
\* outcome, and a save of another update_interval)
C12_PollEveryTick ==
    [][ /\ event'.op = "intervalTick" => Len(statusReqs') = Len(statusReqs) + 1
        /\ (updateInterval = PollPeriod /\ event'.op # "beforeunload")
               => updateInterval' = PollPeriod
        /\ event'.op = "beforeunload" => updateInterval' = 0
      ]_vars

\* a tick has issued a poll while an earlier poll is in flight and a save of
\* update_interval is under way
C12_Witness ==
    /\ event.op = "intervalTick"
    /\ Len(statusReqs) = 2
    /\ saves # <<>>
    /\ Pending(configData, "interface", "update_interval") = "5000"
    /\ updateInterval = PollPeriod

----------------------------------------------------------------------------
\* C13: the print status values the page shows or acts on (connection, print
\* state, progress, Z position, selected file) are written only from status
\* responses: no step of a user action changes any of them
C13_NoLocalStatusWrite ==
    [][ event'.op \in UserActions => UNCHANGED <<statusDom, buttons, selectedFile>> ]_vars

----------------------------------------------------------------------------
(* showAlert on its own: any caller, any message, any type *)

AlertMessages == {"Connected", "Upload failed"}
AlertTypes    == {"success", "error", "warning"}

\* a call of showAlert
raiseAlert(message, type) ==
    /\ Len(alertArea) < MaxToasts
    /\ alertArea' = showAlert(alertArea, message, type)
    /\ event' = Ev("showAlert", "done", "none", 1, FALSE)

outsideAlerts == <<relayVars, obs, statusVars, cfgVars, cfgHistory, cmdVars, pollVars,
                   consoleVars>>

AlertTimerFires == AlertTimeout /\ UNCHANGED outsideAlerts

NextAlerts ==
    \/ \E m \in AlertMessages, t \in AlertTypes : raiseAlert(m, t) /\ UNCHANGED outsideAlerts
    \/ AlertTimerFires

\* a timer set with setTimeout fires: the timer of the oldest toast is not
\* postponed for ever
SpecAlerts == InitAtRest /\ [][NextAlerts]_vars /\ WF_vars(AlertTimerFires)

\* C14: every toast is removed by its own timer, whatever other toasts are
\* shown, so once no further alert is raised the alert area becomes empty and
\* stays empty
C14_AlertsTransient ==
    <>[][event'.op # "showAlert"]_vars => <>[](alertArea = <<>>)

\* the timer of one toast has removed it while two later toasts are shown
C14_Witness ==
    /\ event.op = "alertTimer"
    /\ Len(alertArea) = 2
    /\ alertArea[1] # alertArea[2]

----------------------------------------------------------------------------
\* C15: no retry: the step that handles a failed request (rejected, non-OK
\* status, unparsable body or success:false) sends nothing, it only takes
\* that request out of flight; the step that starts a user action sends one
\* request; and the only request a successful answer triggers is the reload
\* of the file list after an upload
C15_NoRetry ==
    [][ /\ (event'.phase = "done" /\ event'.outcome \in Outcomes \ {"ok"})
              => \E i \in 1..Len(cmdReqs) : cmdReqs' = RemoveAt(cmdReqs, i)
        /\ (event'.op \in UserActions /\ event'.phase = "sent")
              => \E q \in [op : {event'.op}, arg : FileNames \cup {Null}] :
                    cmdReqs' = Append(cmdReqs, q)
        /\ (event'.phase = "done" /\ event'.outcome = "ok")
              => \E i \in 1..Len(cmdReqs) :
                    \/ cmdReqs' = RemoveAt(cmdReqs, i)
                    \/ /\ event'.op = "uploadFiles"
                       /\ cmdReqs' = Append(RemoveAt(cmdReqs, i), CmdReq("updateFiles", Null))
      ]_vars

\* a command has failed and nothing is in flight afterwards
C15_Witness ==
    /\ event.op = "connectPrinter" /\ event.phase = "done"
    /\ event.outcome = "neterr"
    /\ cmdReqs = <<>>

----------------------------------------------------------------------------
\* the toggle requests in flight
TogglesInFlight(reqs) == {i \in 1..Len(reqs) : reqs[i].op = "toggle"}

\* C16: at most one toggle request is in flight; a toggleRelay call made
\* while one is in flight sends nothing, changes no button and no guard and
\* shows no toast; and when the toggle in flight completes no toggle is sent
\* in its place
C16_OneToggleInFlight ==
    [][ /\ Cardinality(TogglesInFlight(relayReqs')) <= 1
        /\ (event'.op = "toggleRelay" /\ event'.phase # "done" /\ relayToggling)
              => (event'.phase = "ignored"
                  /\ UNCHANGED <<relayReqs, relayBtn, relayToggling, alertArea>>)
        /\ (event'.op = "toggleRelay" /\ event'.phase = "done")
              => TogglesInFlight(relayReqs') = {}
      ]_vars

\* a toggleRelay call has been ignored while a toggle is in flight
C16_Witness ==
    /\ event.op = "toggleRelay" /\ event.phase = "ignored"
    /\ relayToggling
    /\ Cardinality(TogglesInFlight(relayReqs)) = 1

----------------------------------------------------------------------------
(* The tabs of the settings modal on their own: loads may overlap *)

NextTabs ==
    \/ openConfigModal /\ UNCHANGED outsideCfg
    \/ closeConfigModal /\ UNCHANGED outsideCfg
    \/ \E t \in AppTabs \cup {"plugins"} \cup PluginTabs :
          switchConfigTab(t) /\ UNCHANGED outsideCfg
    \/ \E i \in 1..MaxTabLoads, o \in Outcomes, tabs \in TabLists :
          loadConfigTabDone(i, o, tabs) /\ UNCHANGED outsideCfg

SpecTabs == InitAtRest /\ [][NextTabs]_vars

\* a step in which the tab load i has completed
LoadCompleted(i) ==
    /\ event'.op = "loadConfigTab"
    /\ i \in 1..Len(cfgReqs)
    /\ cfgReqs' = RemoveAt(cfgReqs, i)

\* C17, as stated: whichever tab load completes leaves its own content (the
\* form of its tab, or its error notice) in the content area
C17_LastCompletedLoadShown ==
    [][ \A i \in 1..MaxTabLoads :
           LoadCompleted(i) => configContent' \in {cfgReqs[i].tab, "error"} ]_vars

\* C17, as the code has it: a completing load of the general, printer or
\* plugins tab writes its form or its error notice whatever the current tab
\* is; a completing load of a plugin tab writes its form, or nothing at all
\* when the answer fails or lacks the tab
C17_LoadWritesUnchecked ==
    [][ \A i \in 1..MaxTabLoads :
           LoadCompleted(i) =>
              IF cfgReqs[i].tab \in AppTabs
              THEN configContent' = IF event'.outcome = "ok" THEN cfgReqs[i].tab ELSE "error"
              ELSE IF cfgReqs[i].tab = "plugins"
              THEN configContent' \in {"plugins", "error"}
              ELSE configContent' \in {cfgReqs[i].tab, configContent}
      ]_vars

\* the load of the tab left behind has completed last: the content area
\* holds the general form while the current tab is printer
C17_Witness ==
    /\ event.op = "loadConfigTab" /\ event.outcome = "ok"
    /\ cfgReqs = <<>>
    /\ currentConfigTab = "printer"
    /\ configContent = "general"

----------------------------------------------------------------------------
(* The console buffer *)

MaxConsoleCalls == 52
MaxErrorLines == 2
\* `if (consoleLines.length > 50)`
ConsoleCap == 50

\* the arguments of the calls: a plain progress line and an error line
ConsoleCalls ==
    { ConsoleLine("Refreshing file list...", ""),
      ConsoleLine("Upload failed", "error") }

DropFirst(s) == SubSeq(s, 2, Len(s))

\* variant: a full buffer drops the line just added
addConsoleMessageDropsNewest(line) ==
    /\ LET pushed == Append(consoleLines, line)
       IN  consoleLines' = IF Len(pushed) > ConsoleCap THEN SubSeq(pushed, 1, Len(pushed) - 1)
                           ELSE pushed
    /\ consoleLog' = Append(consoleLog, line)
    /\ event' = Ev("addConsoleMessage", "done", "none", 0, FALSE)
    /\ UNCHANGED alertArea

\* addConsoleMessage: push, then shift once when the buffer is over the cap
addConsoleMessage(line) ==
    /\ LET pushed == Append(consoleLines, line)
       IN  consoleLines' = IF Len(pushed) > ConsoleCap THEN DropFirst(pushed) ELSE pushed
    /\ consoleLog' = Append(consoleLog, line)
    /\ event' = Ev("addConsoleMessage", "done", "none", 0, FALSE)
    /\ UNCHANGED alertArea

outsideConsole == <<relayVars, obs, statusVars, cfgVars, cfgHistory, cmdVars, pollVars>>

ErrorLines == Cardinality({i \in 1..Len(consoleLog) : consoleLog[i].type = "error"})

NextConsole ==
    \E line \in ConsoleCalls :
        /\ Len(consoleLog) < MaxConsoleCalls
        /\ line.type = "error" => ErrorLines < MaxErrorLines
        /\ addConsoleMessage(line)
        /\ UNCHANGED outsideConsole

SpecConsole == InitAtRest /\ [][NextConsole]_vars

\* the last n elements of s
LastN(s, n) == IF Len(s) <= n THEN s ELSE SubSeq(s, Len(s) - n + 1, Len(s))

\* C18: the console buffer holds at most 50 lines, and they are the most
\* recent messages added, in the order they were added
C18_ConsoleKeepsLatest ==
    /\ Len(consoleLines) <= ConsoleCap
    /\ consoleLines = LastN(consoleLog, ConsoleCap)

\* 52 messages were added to a buffer of 50: the two lines of the page load
\* have been dropped, and the oldest line kept is the third message added
C18_Witness ==
    /\ Len(consoleLog) = MaxConsoleCalls
    /\ Len(consoleLines) = ConsoleCap
    /\ consoleLog[3].type = "error"
    /\ consoleLines[1].type = "error"
    /\ consoleLines[ConsoleCap].type = "error"

\* C19: after a successful load of the plugins tab the plugin tab buttons are
\* exactly the tabs of that load's config_tabs answer, none left over from
\* an earlier load
C19_ButtonsAreTabsReturned ==
    lastTabs # NoTabs => configTabs = lastTabs

----------------------------------------------------------------------------
(* The plugin status items on their own *)

MaxItems == 2

\* loadPluginStatusItems, up to its fetch
loadPluginStatusItems ==
    /\ itemReqs < MaxSidePolls
    /\ itemReqs' = itemReqs + 1
    /\ lastItems' = <<>>
    /\ event' = Ev("loadPluginStatusItems", "sent", "none", 0, FALSE)
    /\ UNCHANGED <<alertArea, updateInterval, usbReqs, usbDom, pluginStatusItems,
                   additionalStatusItems>>

\* the item lists the backend can answer with
ItemLists == UNION {[1..n -> Items] : n \in 0..MaxItems}

NextItems ==
    \/ loadPluginStatusItems /\ UNCHANGED outsidePoll
    \/ \E o \in Outcomes, items \in ItemLists :
          loadPluginStatusItemsDone(o, items) /\ UNCHANGED outsidePoll

SpecItems == InitAtRest /\ [][NextItems]_vars

\* how many times x occurs in s
Occurrences(s, x) == Cardinality({i \in 1..Len(s) : s[i] = x})

\* the priority of an item, a missing one counting as 100
PriorityOr100(item) == IF HasPriority(item) THEN item.priority ELSE 100

Ascending(s) == \A i, j \in 1..Len(s) : i < j => PriorityOr100(s[i]) <= PriorityOr100(s[j])

\* C20: once a response has been applied, the two containers hold exactly
\* its items, each once, in ascending priority order (missing priority =
\* 100), an item being in the toolbar container exactly when its priority is
\* below 50
C20_ItemsPlacedByPriority ==
    (event.op = "loadPluginStatusItems" /\ event.phase = "done" /\ event.outcome = "ok")
    => /\ \A x \in Items :
             Occurrences(pluginStatusItems \o additionalStatusItems, x)
                = Occurrences(lastItems, x)
       /\ Ascending(pluginStatusItems) /\ Ascending(additionalStatusItems)
       /\ \A i \in 1..Len(pluginStatusItems) : PriorityOr100(pluginStatusItems[i]) < 50
       /\ \A i \in 1..Len(additionalStatusItems) :
             PriorityOr100(additionalStatusItems[i]) >= 50

----------------------------------------------------------------------------
(* Edits entered while a save is in flight *)

\* the printer tab of the settings modal, with the requests of every save in
\* flight on record
NextSave ==
    \/ Len(cfgReqs) < MaxCfgReqs /\ openConfigModal /\ UNCHANGED <<outsideSave, sentData>>
    \/ Len(cfgReqs) < MaxCfgReqs /\ switchConfigTab("printer")
          /\ UNCHANGED <<outsideSave, sentData>>
    \/ \E i \in 1..MaxCfgReqs, o \in Outcomes :
          loadConfigTabDone(i, o, <<>>) /\ UNCHANGED <<outsideSave, sentData>>
    \/ \E f \in AppFieldsOf("printer") : \E v \in FieldValues(f[2]) :
          updateConfigValue(f[1], f[2], v) /\ UNCHANGED <<outsideSave, sentData>>
    \/ /\ saveConfig
       /\ sentData' = IF Len(saves') > Len(saves)
                      THEN Append(sentData, SaveRequests(configData)) ELSE sentData
       /\ UNCHANGED outsideSave
    \/ \E k \in 1..MaxSaves, o \in Outcomes :
          /\ saveConfigSettle(k, o)
          /\ sentData' = IF Len(saves') < Len(saves) THEN RemoveAt(sentData, k)
                         ELSE sentData
          /\ UNCHANGED outsideSave

SpecSave == InitAtRest /\ [][NextSave]_vars

\* every pending edit of cd is carried, with its pending value, by one of
\* the requests in sent
Included(cd, sent) ==
    /\ \A section \in DOMAIN cd \ {"plugins"} : \A key \in DOMAIN cd[section] :
          \E q \in sent : /\ q.url = "/api/config/app"
                          /\ q.section = section /\ q.key = key
                          /\ q.value = cd[section][key]
    /\ "plugins" \in DOMAIN cd =>
          \A pl \in DOMAIN cd["plugins"] : \A key \in DOMAIN cd["plugins"][pl] :
             \E q \in sent : /\ q.url = "/api/config/plugins/" \o pl
                             /\ key \in DOMAIN q.config
                             /\ q.config[key] = cd["plugins"][pl][key]

\* C21: when a save completes and empties configData, every pending edit it
\* removes was carried by a request of that save
C21_SaveRemovesOnlySentEdits ==
    [][ \A k \in 1..MaxSaves :
           ( /\ event'.op = "saveConfig" /\ event'.phase = "done"
             /\ event'.outcome # "neterr"
             /\ k \in 1..Len(saves) /\ saves' = RemoveAt(saves, k) )
           => Included(configData, sentData[k]) ]_vars

----------------------------------------------------------------------------
(* The relay plugin with its timers and the network running on: the 10 s
   interval keeps calling refreshRelayStates whatever else is in flight,
   the backend handles every request it is sent, every fetch settles, and
   every toast timer fires.  setRelayState has no caller in the page (it is
   only exported through window.relayController) and is left out. *)

RefreshTimerFires == refreshRelayStates /\ UNCHANGED <<obs, outsideRelay>>
RelayServed(i) == ServeRelay(i) /\ UNCHANGED <<obs, outsideRelay>>
ToggleSettles(i) ==
    \E o \in Outcomes, m \in RelayMessages :
        toggleRelayDone(i, o, m) /\ UNCHANGED <<obs, outsideRelay>>
RefreshSettles(i) ==
    \E o \in Outcomes : refreshRelayStatesDone(i, o) /\ UNCHANGED <<obs, outsideRelay>>
RelayToastExpires == AlertTimeout /\ UNCHANGED <<relayVars, obs, outsideRelay>>

NextRelayLive ==
    \/ \E r \in RelayIds : toggleRelay(r) /\ UNCHANGED <<obs, outsideRelay>>
    \/ RefreshTimerFires
    \/ \E i \in 1..MaxRelayReqs : RelayServed(i)
    \/ \E i \in 1..MaxRelayReqs : ToggleSettles(i)
    \/ \E i \in 1..MaxRelayReqs : RefreshSettles(i)
    \/ RelayToastExpires

RelayFairness ==
    /\ SF_vars(RefreshTimerFires)
    /\ WF_vars(RelayToastExpires)
    /\ \A i \in 1..MaxRelayReqs :
          /\ WF_vars(RelayServed(i))
          /\ WF_vars(ToggleSettles(i))
          /\ WF_vars(RefreshSettles(i))

SpecRelayLive == Init /\ [][NextRelayLive]_vars /\ RelayFairness

\* C23: every completion of toggleRelay (success, success:false, non-OK
\* status, unreadable body, network error) leaves relayToggling false; a
\* toggleRelay call made while no toggle is in flight sends its request; and
\* a raised guard is always lowered again
C23_GuardReleased ==
    /\ [][ /\ (event'.op = "toggleRelay" /\ event'.phase = "done") => ~relayToggling'
           /\ (event'.op = "toggleRelay" /\ event'.phase # "done"
                 /\ TogglesInFlight(relayReqs) = {})
                 => (event'.phase = "sent" /\ Len(relayReqs') = Len(relayReqs) + 1)
         ]_vars
    /\ (relayToggling ~> ~relayToggling)

\* a toggle has ended with a network error and the next toggleRelay call has
\* sent its request
C23_Witness ==
    /\ event.op = "toggleRelay" /\ event.phase = "sent"
    /\ relayToggling
    /\ \E k \in 1..Len(alertArea) :
          alertArea[k] = Toast("Network error - please try again", "error")

\* every relay that has a toolbar button is rendered in the backend's state
ButtonsShowBackend ==
    \A r \in RelayIds : relayBtn[r] # "none" => relayBtn[r] = RelayClass(relayBackend[r])

\* C22: if from some point on the backend's relay states no longer change
\* and every get_status request that completes has succeeded, then from some
\* point on every relay button that exists shows the backend's state
C22_ButtonsConverge ==
    <>[][ /\ relayBackend' = relayBackend
          /\ (event'.op = "refreshRelayStates" /\ event'.phase = "done")
                => event'.outcome = "ok" ]_vars
       => <>[]ButtonsShowBackend

\* a get_status answer that was overtaken by a change of the backend has
\* just been rendered: a button shows the older state
C22_Witness ==
    /\ event.op = "refreshRelayStates" /\ event.phase = "done" /\ event.outcome = "ok"
    /\ \E r \in RelayIds : relayBtn[r] # "none" /\ relayBtn[r] # RelayClass(relayBackend[r])

----------------------------------------------------------------------------
(* The control buttons: status polls together with file selection *)

\* the payloads by what updateButtons reads of them: connected and the
\* print state
ButtonPayloads ==
    {st \in StatusPayloads : /\ st.print_status.progress_percent = 50
                             /\ st.selected_file = Null}

NextButtons ==
    \/ updateStatus /\ UNCHANGED outsideStatus
    \/ \E i \in 1..MaxPolls, st \in ButtonPayloads :
          updateStatusDone(i, "ok", st) /\ UNCHANGED outsideStatus
    \/ \E i \in 1..MaxPolls, o \in Outcomes \ {"ok"} :
          updateStatusDone(i, o, Null) /\ UNCHANGED outsideStatus
    \/ \E f \in FileNames : selectFile(f) /\ UNCHANGED outsideCmd
    \/ \E i \in 1..MaxCmdReqs, o \in Outcomes : \E b \in CmdBodies(o) :
          selectFileDone(i, o, b) /\ UNCHANGED outsideCmd
    \/ AlertTimeout /\ UNCHANGED <<selectedFile, cmdVars, outsideCmd>>

SpecButtons == InitAtRest /\ [][NextButtons]_vars

Enabled(id) == ~buttons[id]

\* C24: right after a status response has been applied, exactly one of
\* Connect / Disconnect is enabled; Start is enabled only if connected, not
\* PRINTING, not PAUSED and a file is selected; Pause is enabled iff connected
\* and PRINTING; Resume iff connected and PAUSED; never both; Stop is enabled
\* iff Pause or Resume is
C24_ButtonsFollowStatus ==
    StatusApplied =>
        LET connected == lastPoll.status.connected
            state     == lastPoll.status.print_status.state
        IN  /\ Enabled("connectBtn") # Enabled("disconnectBtn")
            /\ Enabled("startBtn") => /\ connected
                                      /\ state \notin {"PRINTING", "PAUSED"}
                                      /\ selectedFile # Null
            /\ Enabled("pauseBtn") <=> (connected /\ state = "PRINTING")
            /\ Enabled("resumeBtn") <=> (connected /\ state = "PAUSED")
            /\ ~(Enabled("pauseBtn") /\ Enabled("resumeBtn"))
            /\ Enabled("stopBtn") <=> (Enabled("pauseBtn") \/ Enabled("resumeBtn"))

\* a response for a connected, paused printer has been applied after a file
\* was selected: Resume and Stop are enabled, Start and Pause are not
C24_Witness ==
    /\ StatusApplied
    /\ selectedFile # Null
    /\ lastPoll.status.connected /\ lastPoll.status.print_status.state = "PAUSED"
    /\ Enabled("resumeBtn") /\ Enabled("stopBtn")
    /\ ~Enabled("startBtn") /\ ~Enabled("pauseBtn")

\* C25: a status poll whose fetch is rejected or whose body is not JSON
\* leaves the status fields, the buttons, the overlay and printStartTime as
\* they were
C25_FailedPollChangesNothing ==
    [][ (event'.op = "updateStatus" /\ event'.phase = "done"
           /\ event'.outcome \in {"neterr", "badjson"})
        => UNCHANGED <<statusDom, buttons, printingOverlay, printStartTime>> ]_vars

\* a poll has failed while the page shows a print in progress
C25_Witness ==
    /\ event.op = "updateStatus" /\ event.phase = "done"
    /\ event.outcome \in {"neterr", "badjson"}
    /\ statusDom.printStatus.text = "PRINTING"
    /\ statusDom.connectionStatus.text = "Connected"
    /\ printingOverlay.active
    /\ printStartTime # Null

====
